---- MODULE Spec2Model ----
(***************************************************************************)
(* Model of the metal-detecting photo application: the photo service      *)
(* (photoService.js, here src/src/PhotoHoverPreview.jsx lines 441-992),    *)
(* the list view's lazy thumbnails (ListView.jsx), and the maintenance     *)
(* scripts (regenerate-thumbnails.js, generate-thumbnails.js and           *)
(* migrate-images-to-storage.js).  The hosted backend is modelled as a     *)
(* table of photo rows plus a storage bucket; every backend request has a  *)
(* nondeterministic outcome: "ok", an error result, or a thrown exception. *)
(***************************************************************************)
EXTENDS Integers, Sequences, FiniteSets, TLC

VARIABLES
  photos,        \* the photos table: a function from the ids of the rows that exist to rows
  bucket,        \* the "original-images" storage bucket: the set of object paths
  nextId,        \* the BIGSERIAL id the next inserted row gets
  clock,         \* wall clock: new Date() at each upload
  svc,           \* the last photo-service call: operation, arguments, requests, result
  lv,            \* the list view: rows, thumbnail cache, one LazyThumbnail per row
  thumb,         \* the run of a thumbnail script
  mig,           \* the run of the image migration script
  progressFile,  \* migration-progress.json
  app,           \* App: currentView, the URL, and the MapComponent it shows
  auth,          \* the auth service: the claims of the signed-in user's token
  ctx,           \* PhotosProvider: photos, currentOffset, hasMore, the loads in flight
  modal,         \* PhotoModal: the selected photo, its image, the requests in flight
  cap            \* MapComponent's photo captures: loadingPhotos and the saves in flight

vars == <<photos, bucket, nextId, clock, svc, lv, thumb, mig, progressFile, app, auth, ctx, modal, cap>>

\* ------------------------------------------------------------------ bounds

MaxRows == 1          \* rows the photo service may insert
MaxListRows == 2      \* rows in the table when the list view mounts
MaxThumbRows == 4     \* rows in the table when a thumbnail script starts
MaxMigRows == 2       \* rows in the table when the image migration starts
MaxRequests == 3      \* thumbnail requests counted per list row
MaxRuns == 2          \* migration runs in a row

\* --------------------------------------------------------------- constants

NULL == "null"
Outcomes == {"ok", "error", "throw"}

MaxSizeInMB == 2
LoadAllLimit == 50

\* the users a caller may pass: null, an admin (user_metadata.admin === true),
\* and a user whose admin claim is truthy but not the boolean true
NullUser == [isNull |-> TRUE, id |-> NULL, admin |-> "undefined"]
Users ==
  { NullUser,
    [isNull |-> FALSE, id |-> "u1", admin |-> "true"],
    [isNull |-> FALSE, id |-> "u2", admin |-> "yes"] }
AdminUser == [isNull |-> FALSE, id |-> "u1", admin |-> "true"]

\* ------------------------------------------------------- results of a call

Ok(data) == [kind |-> "return", success |-> TRUE, data |-> data, error |-> NULL]
Fail(err) == [kind |-> "return", success |-> FALSE, data |-> NULL, error |-> err]
Threw(err) == [kind |-> "throw", success |-> FALSE, data |-> NULL, error |-> err]

Call(name, arg, out) == [call |-> name, arg |-> arg, out |-> out]

\* mutant of Caught: no catch block, the exception reaches the caller
Caught_Rethrows(r) == r

\* the surrounding try { ... } catch (error) { return { success: false, error } }
Caught(r) ==
  IF r.ret.kind = "throw" THEN [r EXCEPT !.ret = Fail(r.ret.error)] ELSE r

\* ------------------------------------------------------------------- admin

\* mutant of checkAdminPermission: any truthy admin value passes
checkAdminPermission_Truthy(user) ==
  IF user.isNull THEN FALSE ELSE user.admin \in {"true", "yes"}

checkAdminPermission(user) ==
  IF user.isNull THEN FALSE ELSE user.admin = "true"

requireAdmin(user) == checkAdminPermission(user)

\* ------------------------------------------------------------------ images

\* length of the base64 text of an image
Base64Length(img) == IF img = "oBig" THEN 4000000 ELSE 400000

validateImageSize(base64Image) ==
  (Base64Length(base64Image) * 3) \div 4 <= MaxSizeInMB * 1024 * 1024

compressImage(base64Image) == "c(" \o base64Image \o ")"

createThumbnail(base64Image) == "t(" \o base64Image \o ")"

\* ----------------------------------------------------------------- backend

RowIds(P) == DOMAIN P

Without(P, id) == [i \in (DOMAIN P) \ {id} |-> P[i]]

\* .delete().eq("id", id): the rows the DELETE policy hides from the caller
\* are left alone and no error is reported ("filtered")
DeleteRow(P, id, out) == IF out = "ok" THEN Without(P, id) ELSE P

WithRow(P, id, row) == [i \in (DOMAIN P) \cup {id} |-> IF i = id THEN row ELSE P[i]]

RECURSIVE OrderedAsc(_, _)
\* the ids of S, by created_at ascending
OrderedAsc(P, S) ==
  IF S = {} THEN <<>>
  ELSE LET before(i) == {j \in S : \/ P[j].created_at < P[i].created_at
                                   \/ (P[j].created_at = P[i].created_at /\ j < i)}
           m == CHOOSE i \in S : Cardinality(before(i)) = Cardinality(S) \div 2
       IN OrderedAsc(P, before(m)) \o <<m>> \o OrderedAsc(P, S \ (before(m) \cup {m}))

Reverse(s) == [i \in 1..Len(s) |-> s[Len(s) + 1 - i]]

\* .range(from, to) over an ordered result
Range(s, from, to) ==
  IF from > Len(s) THEN <<>>
  ELSE SubSeq(s, from + 1, IF to + 1 > Len(s) THEN Len(s) ELSE to + 1)

\* supabase.storage.from(STORAGE_BUCKET).upload(path, blob, { upsert: false })
StorageUpload(path, out, B) ==
  IF out = "ok" /\ path \notin B
    THEN [bucket |-> B \cup {path}, out |-> "ok"]
    ELSE [bucket |-> B, out |-> IF out = "ok" THEN "error" ELSE out]

\* supabase.storage.from(STORAGE_BUCKET).remove([path])
StorageRemove(path, out, B) ==
  IF out = "ok" THEN [bucket |-> B \ {path}, out |-> "ok"]
  ELSE [bucket |-> B, out |-> out]

\* supabase.storage.from(STORAGE_BUCKET).download(path)
StorageDownload(path, out, B) ==
  IF out = "ok" /\ path \in B THEN "ok" ELSE IF out = "ok" THEN "error" ELSE out

\* .eq("id", id).single(): an error result when no row matches
SelectSingle(id, out, P) ==
  IF out = "ok" /\ id \notin DOMAIN P THEN "error" ELSE out

Min2(a, b) == IF a < b THEN a ELSE b

\* ----------------------------------------------------------- photo service

\* uploadOriginalImage: the unique object name is userId/timestamp_filename
UniqueFilename(userId, now) == userId \o "/" \o ToString(now) \o "_photo.jpg"

uploadOriginalImage(base64Image, userId, out, B, now) ==
  LET path == UniqueFilename(userId, now)
      up == StorageUpload(path, out, B)
  IN [bucket |-> up.bucket, path |-> path, thrown |-> up.out # "ok",
      calls |-> <<Call("upload", path, up.out)>>]

\* deleteOriginalImage: rethrows an error result
deleteOriginalImage(storagePath, out, B) ==
  LET rm == StorageRemove(storagePath, out, B)
  IN [bucket |-> rm.bucket, thrown |-> rm.out # "ok",
      calls |-> <<Call("remove", storagePath, rm.out)>>]

\* downloadOriginalImage: rethrows an error result
downloadOriginalImage(storagePath, out, B) ==
  [thrown |-> StorageDownload(storagePath, out, B) # "ok",
   calls |-> <<Call("download", storagePath, StorageDownload(storagePath, out, B))>>]

OrNull(v) == IF v = "" THEN NULL ELSE v

\* mutant of NewRow: the thumbnail is made from the original
NewRow_ThumbnailOfOriginal(id, photoData, compressedImage, thumbnail, storagePath, now) ==
  [id |-> id, lat |-> photoData.lat, lng |-> photoData.lng,
   image_data |-> compressedImage,
   thumbnail_data |-> createThumbnail(photoData.imageData),
   storage_path |-> storagePath, timestamp |-> photoData.timestamp,
   type |-> OrNull(photoData.type), name |-> OrNull(photoData.name),
   description |-> OrNull(photoData.description), created_at |-> now]

NewRow(id, photoData, compressedImage, thumbnail, storagePath, now) ==
  [id |-> id, lat |-> photoData.lat, lng |-> photoData.lng,
   image_data |-> compressedImage, thumbnail_data |-> thumbnail,
   storage_path |-> storagePath, timestamp |-> photoData.timestamp,
   type |-> OrNull(photoData.type), name |-> OrNull(photoData.name),
   description |-> OrNull(photoData.description), created_at |-> now]

\* the insert's cleanup branch: the uploaded file is removed, a failure of
\* the removal is logged and swallowed
InsertErrorCleanup(storagePath, rmOut, B) ==
  LET rm == deleteOriginalImage(storagePath, rmOut, B)
  IN [bucket |-> rm.bucket, calls |-> rm.calls]

savePhotoToDatabaseBody(photoData, user, upOut, insOut, rmOut, P, B, nid, now) ==
  LET same == [photos |-> P, bucket |-> B, nextId |-> nid, calls |-> <<>>]
  IN
  IF ~requireAdmin(user)
    THEN same @@ [ret |-> Threw("Admin permission required for this operation")]
  ELSE IF ~validateImageSize(photoData.imageData)
    THEN same @@ [ret |-> Threw("Image is too large")]
  ELSE
    LET up == uploadOriginalImage(photoData.imageData, user.id, upOut, B, now)
    IN
    IF up.thrown
      THEN [same EXCEPT !.bucket = up.bucket, !.calls = up.calls]
             @@ [ret |-> Threw("upload")]
    ELSE
      LET compressedImage == compressImage(photoData.imageData)
          thumbnail == createThumbnail(compressedImage)
          row == NewRow(nid, photoData, compressedImage, thumbnail, up.path, now)
          ins == <<Call("insert", ToString(nid), insOut)>>
      IN
      IF insOut = "throw"
        THEN [same EXCEPT !.bucket = up.bucket, !.calls = up.calls \o ins]
               @@ [ret |-> Threw("insert")]
      ELSE IF insOut = "error"
        THEN LET cl == InsertErrorCleanup(up.path, rmOut, up.bucket)
             IN [same EXCEPT !.bucket = cl.bucket,
                             !.calls = up.calls \o ins \o cl.calls]
                  @@ [ret |-> Fail("insert")]
      ELSE [photos |-> WithRow(P, nid, row), bucket |-> up.bucket,
            nextId |-> nid + 1, calls |-> up.calls \o ins, ret |-> Ok(row)]

savePhotoToDatabase(photoData, user, upOut, insOut, rmOut, P, B, nid, now) ==
  Caught(savePhotoToDatabaseBody(photoData, user, upOut, insOut, rmOut, P, B, nid, now))

\* .update(fields).eq("id", photoId).select(): the rows changed come back
updatePhotoTypeBody(photoId, newType, user, out, P) ==
  IF ~requireAdmin(user)
    THEN [photos |-> P, calls |-> <<>>,
          ret |-> Threw("Admin permission required for this operation")]
  ELSE
    LET c == <<Call("update", ToString(photoId), out)>>
    IN
    IF out = "throw" THEN [photos |-> P, calls |-> c, ret |-> Threw("update")]
    ELSE IF out = "error" THEN [photos |-> P, calls |-> c, ret |-> Fail("update")]
    ELSE IF out = "ok" /\ photoId \in DOMAIN P
      THEN LET row == [P[photoId] EXCEPT !.type = newType]
           IN [photos |-> WithRow(P, photoId, row), calls |-> c, ret |-> Ok(row)]
      ELSE [photos |-> P, calls |-> c, ret |-> Ok(NULL)]

updatePhotoType(photoId, newType, user, out, P) ==
  Caught(updatePhotoTypeBody(photoId, newType, user, out, P))

updatePhotoDetailsBody(photoId, name, description, user, out, P) ==
  IF ~requireAdmin(user)
    THEN [photos |-> P, calls |-> <<>>,
          ret |-> Threw("Admin permission required for this operation")]
  ELSE
    LET c == <<Call("update", ToString(photoId), out)>>
    IN
    IF out = "throw" THEN [photos |-> P, calls |-> c, ret |-> Threw("update")]
    ELSE IF out = "error" THEN [photos |-> P, calls |-> c, ret |-> Fail("update")]
    ELSE IF out = "ok" /\ photoId \in DOMAIN P
      THEN LET row == [P[photoId] EXCEPT !.name = OrNull(name),
                                         !.description = OrNull(description)]
           IN [photos |-> WithRow(P, photoId, row), calls |-> c, ret |-> Ok(row)]
      ELSE [photos |-> P, calls |-> c, ret |-> Ok(NULL)]

updatePhotoDetails(photoId, name, description, user, out, P) ==
  Caught(updatePhotoDetailsBody(photoId, name, description, user, out, P))

\* mutant of DeleteStorageStep: no inner try/catch around the removal
DeleteStorageStep_Rethrows(storagePath, rmOut, B) ==
  deleteOriginalImage(storagePath, rmOut, B)

\* the storage step of deletePhotoFromDatabase: a failure is logged as
\* non-critical and swallowed
DeleteStorageStep(storagePath, rmOut, B) ==
  LET rm == deleteOriginalImage(storagePath, rmOut, B)
  IN [bucket |-> rm.bucket, calls |-> rm.calls, thrown |-> FALSE]

deletePhotoFromDatabaseBody(photoId, user, fetchOut, delOut, rmOut, P, B) ==
  IF ~requireAdmin(user)
    THEN [photos |-> P, bucket |-> B, calls |-> <<>>,
          ret |-> Threw("Admin permission required for this operation")]
  ELSE
    LET fOut == SelectSingle(photoId, fetchOut, P)
        f == <<Call("select", ToString(photoId), fOut)>>
    IN
    IF fOut = "throw"
      THEN [photos |-> P, bucket |-> B, calls |-> f, ret |-> Threw("select")]
    ELSE
      \* a fetch error is logged; photoData is then null
      LET storagePath == IF fOut = "ok" THEN P[photoId].storage_path ELSE NULL
          d == <<Call("delete", ToString(photoId), delOut)>>
      IN
      IF delOut = "throw"
        THEN [photos |-> P, bucket |-> B, calls |-> f \o d, ret |-> Threw("delete")]
      ELSE IF delOut = "error"
        THEN [photos |-> P, bucket |-> B, calls |-> f \o d, ret |-> Fail("delete")]
      ELSE IF storagePath # NULL
        THEN LET st == DeleteStorageStep(storagePath, rmOut, B)
             IN [photos |-> DeleteRow(P, photoId, delOut), bucket |-> st.bucket,
                 calls |-> f \o d \o st.calls,
                 ret |-> IF st.thrown THEN Threw("remove") ELSE Ok(NULL)]
      ELSE [photos |-> DeleteRow(P, photoId, delOut), bucket |-> B, calls |-> f \o d,
            ret |-> Ok(NULL)]

deletePhotoFromDatabase(photoId, user, fetchOut, delOut, rmOut, P, B) ==
  Caught(deletePhotoFromDatabaseBody(photoId, user, fetchOut, delOut, rmOut, P, B))

\* ---------------------------------------------------- photo service: reads

\* .order("created_at", { ascending: false }).range(offset, offset + limit - 1)
PageDesc(P, limit, offset) ==
  LET ids == Range(Reverse(OrderedAsc(P, DOMAIN P)), offset, offset + limit - 1)
  IN [k \in 1..Len(ids) |-> P[ids[k]]]

WithImageData(photo) == photo @@ [imageData |-> photo.image_data]

Metadata(photo) ==
  [id |-> photo.id, lat |-> photo.lat, lng |-> photo.lng,
   timestamp |-> photo.timestamp, type |-> photo.type, name |-> photo.name,
   description |-> photo.description, created_at |-> photo.created_at]

WithThumbnail(photo) ==
  Metadata(photo) @@ [thumbnail_data |-> photo.thumbnail_data,
                      imageData |-> photo.thumbnail_data,
                      hasFullImage |-> photo.thumbnail_data # NULL]

loadPhotosFromDatabaseBody(limit, offset, out, P) ==
  LET c == <<Call("select", ToString(offset), out)>>
      data == PageDesc(P, limit, offset)
  IN
  IF out = "throw" THEN [calls |-> c, ret |-> Threw("select")]
  ELSE IF out = "error" THEN [calls |-> c, ret |-> Fail("select")]
  ELSE [calls |-> c, ret |-> Ok([k \in 1..Len(data) |-> WithImageData(data[k])])]

loadPhotosFromDatabase(limit, offset, out, P) ==
  Caught(loadPhotosFromDatabaseBody(limit, offset, out, P))

RECURSIVE LoadAllLoop(_, _, _, _, _)
\* the while (hasMore) loop of loadAllPhotosFromDatabase; outs[k] is the
\* outcome of the k-th page request
LoadAllLoop(allPhotos, offset, calls, outs, P) ==
  LET result == loadPhotosFromDatabase(LoadAllLimit, offset, Head(outs), P)
      cs == calls \o result.calls
  IN
  IF ~result.ret.success THEN [calls |-> cs, ret |-> result.ret]
  ELSE
    LET all == allPhotos \o result.ret.data
        hasMore == Len(result.ret.data) = LoadAllLimit
    IN IF hasMore /\ Len(outs) > 1
         THEN LoadAllLoop(all, offset + LoadAllLimit, cs, Tail(outs), P)
         ELSE [calls |-> cs, ret |-> Ok(all)]

loadAllPhotosFromDatabaseBody(outs, P) == LoadAllLoop(<<>>, 0, <<>>, outs, P)

loadAllPhotosFromDatabase(outs, P) == Caught(loadAllPhotosFromDatabaseBody(outs, P))

loadPhotosMetadataOnlyBody(limit, offset, out, P) ==
  LET c == <<Call("select", ToString(offset), out)>>
      data == PageDesc(P, limit, offset)
  IN
  IF out = "throw" THEN [calls |-> c, ret |-> Threw("select")]
  ELSE IF out = "error" THEN [calls |-> c, ret |-> Fail("select")]
  ELSE [calls |-> c, ret |-> Ok([k \in 1..Len(data) |-> Metadata(data[k])])]

loadPhotosMetadataOnly(limit, offset, out, P) ==
  Caught(loadPhotosMetadataOnlyBody(limit, offset, out, P))

loadPhotoThumbnailBody(photoId, out, P) ==
  LET o == SelectSingle(photoId, out, P)
      c == <<Call("select", ToString(photoId), o)>>
  IN
  IF o = "throw" THEN [calls |-> c, ret |-> Threw("select")]
  ELSE IF o = "error" THEN [calls |-> c, ret |-> Fail("select")]
  ELSE [calls |-> c, ret |-> Ok(P[photoId].thumbnail_data)]

loadPhotoThumbnail(photoId, out, P) == Caught(loadPhotoThumbnailBody(photoId, out, P))

loadPhotosWithThumbnailsBody(limit, offset, out, P) ==
  LET c == <<Call("select", ToString(offset), out)>>
      data == PageDesc(P, limit, offset)
  IN
  IF out = "throw" THEN [calls |-> c, ret |-> Threw("select")]
  ELSE IF out = "error" THEN [calls |-> c, ret |-> Fail("select")]
  ELSE [calls |-> c, ret |-> Ok([k \in 1..Len(data) |-> WithThumbnail(data[k])])]

loadPhotosWithThumbnails(limit, offset, out, P) ==
  Caught(loadPhotosWithThumbnailsBody(limit, offset, out, P))

getFullImageDataBody(photoId, out, P) ==
  LET o == SelectSingle(photoId, out, P)
      c == <<Call("select", ToString(photoId), o)>>
  IN
  IF o = "throw" THEN [calls |-> c, ret |-> Threw("select")]
  ELSE IF o = "error" THEN [calls |-> c, ret |-> Fail("select")]
  ELSE [calls |-> c, ret |-> Ok(P[photoId].image_data)]

getFullImageData(photoId, out, P) == Caught(getFullImageDataBody(photoId, out, P))

getOriginalImageDataBody(photoId, out, dlOut, P, B) ==
  LET o == SelectSingle(photoId, out, P)
      c == <<Call("select", ToString(photoId), o)>>
  IN
  IF o = "throw" THEN [calls |-> c, ret |-> Threw("select")]
  ELSE IF o = "error" THEN [calls |-> c, ret |-> Fail("select")]
  ELSE IF P[photoId].storage_path = NULL
    THEN [calls |-> c, ret |-> Fail("No original image found in storage")]
  ELSE
    LET dl == downloadOriginalImage(P[photoId].storage_path, dlOut, B)
    IN IF dl.thrown THEN [calls |-> c \o dl.calls, ret |-> Threw("download")]
       ELSE [calls |-> c \o dl.calls,
             ret |-> Ok("original(" \o P[photoId].storage_path \o ")")]

getOriginalImageData(photoId, out, dlOut, P, B) ==
  Caught(getOriginalImageDataBody(photoId, out, dlOut, P, B))

\* ------------------------------------------------------------- idle values

NoPhotos == [i \in {} |-> NULL]

SvcIdle ==
  [op |-> "none", user |-> NullUser, photoId |-> 0, calls |-> <<>>,
   ret |-> [kind |-> "return", success |-> TRUE, error |-> NULL]]

\* nobody signed in
AuthIdle == [user |-> NullUser]

\* PhotosProvider before its mount effect: useState([]), false, null, true, 0;
\* seen holds the state values the functions of the last render closed over
CtxIdle ==
  [mounted |-> FALSE, photos |-> <<>>, loading |-> FALSE, error |-> NULL,
   hasMore |-> TRUE, currentOffset |-> 0,
   seen |-> [loading |-> FALSE, hasMore |-> TRUE, currentOffset |-> 0],
   inflight |-> {}, issued |-> 0]

\* PhotoModal of a parent that has not opened a photo: showModal false,
\* selectedPhoto null (0), useState(null), useState(false)
ModalIdle ==
  [showModal |-> FALSE, selectedPhoto |-> 0, originalImageData |-> NULL,
   isLoadingOriginal |-> FALSE, inflight |-> {}, issued |-> 0, opens |-> 0]

\* MapComponent with no capture made: useState([]) of loadingPhotos, no toast
CapIdle == [loadingPhotos |-> {}, saves |-> NoPhotos, toast |-> NULL]

\* ListView just mounted: isLoading, no photos, empty thumbnailCache
LvIdle ==
  [pc |-> "loading", rows |-> {}, toast |-> NULL, cache |-> NoPhotos,
   lazy |-> NoPhotos, visible |-> {}, requests |-> NoPhotos,
   photos |-> <<>>, sortBy |-> "timestamp", filterBy |-> "all",
   crashed |-> FALSE, shown |-> <<>>]

\* no thumbnail script started
ThumbIdle ==
  [pc |-> "idle", script |-> "none", mode |-> "all", ids |-> {}, limit |-> 0,
   dryRun |-> FALSE, regenerateMode |-> FALSE, offset |-> 0, hasMore |-> TRUE,
   processed |-> 0, successful |-> 0, failed |-> 0, attempt |-> 1,
   delays |-> <<>>, fetchLog |-> <<>>, batch |-> <<>>, i |-> 1,
   exitCode |-> -1, startMissing |-> {}, anyError |-> FALSE,
   updLog |-> <<>>]

\* no migration run started
MigIdle ==
  [pc |-> "idle", runs |-> 0, dryRun |-> FALSE, resume |-> FALSE,
   cleanup |-> FALSE, batchSize |-> 10, processed |-> 0, successful |-> 0,
   failed |-> 0, lastProcessedId |-> 0, startId |-> 0, saves |-> 0,
   batch |-> <<>>, i |-> 1, exitCode |-> -1, uploads |-> <<>>]

NoFile == [exists |-> FALSE]

\* coordinates are whole numbers of 1e-7 degrees; a lat or lng parameter of
\* the URL holds the whole number of 1e-6 degrees that its text spells
Absent == [kind |-> "absent", n |-> 0]

\* the URL without parameters
NoURL == [view |-> "absent", lat |-> Absent, lng |-> Absent, zoom |-> Absent]

\* MapComponent is not rendered
MapUnmounted ==
  [mounted |-> FALSE, isLoading |-> TRUE, geoPending |-> FALSE,
   mountUrl |-> NoURL, gps |-> FALSE, moved |-> FALSE,
   hasCenter |-> FALSE, mapCenter |-> <<0, 0>>, mapZoom |-> 15,
   userLocation |-> <<585953000, 250136000>>, showLocation |-> FALSE,
   locationError |-> FALSE, hasView |-> FALSE, viewCenter |-> <<0, 0>>,
   viewZoom |-> 0, dialog |-> FALSE, hasClick |-> FALSE, click |-> <<0, 0>>]

\* the page before App's mount effect: useState("list")
AppIdle ==
  [pc |-> "init", currentView |-> "list", url |-> NoURL, geo |-> TRUE,
   user |-> NullUser, toast |-> NULL,
   handler |-> [name |-> "none", view |-> "list"],
   jump |-> [active |-> FALSE, lat |-> 0, lng |-> 0],
   map |-> MapUnmounted]

\* --------------------------------------------- photo service: the callers

Lats == {58}
Lngs == {25}
Originals == {"o1", "oBig"}
SaveTypes == {"target"}
NewTypes == {"coins"}
Details == {<<"Target", "">>}
PageLimits == {1, LoadAllLimit}
PageOffsets == {0, 1}

\* what the caller keeps of a call: the requests made and the value returned
\* (or the exception that reached it)
SvcRecord(op, user, photoId, r) ==
  [op |-> op, user |-> user, photoId |-> photoId, calls |-> r.calls,
   ret |-> [kind |-> r.ret.kind, success |-> r.ret.success, error |-> r.ret.error]]

\* the outcomes of a backend request: drawn only when the request is made
OutcomesIf(made) == IF made THEN Outcomes ELSE {"ok"}

ScriptsIdle == UNCHANGED <<lv, thumb, mig, progressFile, app, auth, ctx, modal, cap>>

SavePhoto ==
  /\ nextId <= MaxRows
  /\ clock <= MaxRows + 1
  /\ \E user \in Users, lat \in Lats, lng \in Lngs, type \in SaveTypes :
     \E img \in IF requireAdmin(user) THEN Originals ELSE {"o1"} :
     \E upOut \in OutcomesIf(requireAdmin(user) /\ validateImageSize(img)) :
     \E insOut \in OutcomesIf(requireAdmin(user) /\ validateImageSize(img)
                                /\ upOut = "ok") :
     \E rmOut \in OutcomesIf(insOut = "error") :
       LET photoData == [lat |-> lat, lng |-> lng, imageData |-> img,
                         timestamp |-> clock, type |-> type, name |-> "",
                         description |-> ""]
           r == savePhotoToDatabase(photoData, user, upOut, insOut, rmOut,
                                    photos, bucket, nextId, clock)
       IN /\ photos' = r.photos
          /\ bucket' = r.bucket
          /\ nextId' = r.nextId
          /\ clock' = clock + 1
          /\ svc' = SvcRecord("savePhotoToDatabase", user, nextId, r)
  /\ ScriptsIdle

UpdateType ==
  /\ \E user \in Users, id \in 1..MaxRows, newType \in NewTypes :
     \E out \in OutcomesIf(requireAdmin(user)) :
       LET r == updatePhotoType(id, newType, user, out, photos)
       IN /\ photos' = r.photos
          /\ svc' = SvcRecord("updatePhotoType", user, id, r)
  /\ UNCHANGED <<bucket, nextId, clock>>
  /\ ScriptsIdle

UpdateDetails ==
  /\ \E user \in Users, id \in 1..MaxRows, nd \in Details :
     \E out \in OutcomesIf(requireAdmin(user)) :
       LET r == updatePhotoDetails(id, nd[1], nd[2], user, out, photos)
       IN /\ photos' = r.photos
          /\ svc' = SvcRecord("updatePhotoDetails", user, id, r)
  /\ UNCHANGED <<bucket, nextId, clock>>
  /\ ScriptsIdle

DeletePhoto ==
  /\ \E user \in Users, id \in 1..MaxRows :
     \E fetchOut \in OutcomesIf(requireAdmin(user)) :
     \E delOut \in OutcomesIf(requireAdmin(user) /\ fetchOut # "throw") :
     \E rmOut \in OutcomesIf(requireAdmin(user) /\ fetchOut = "ok" /\ delOut = "ok") :
       LET r == deletePhotoFromDatabase(id, user, fetchOut, delOut, rmOut,
                                        photos, bucket)
       IN /\ photos' = r.photos
          /\ bucket' = r.bucket
          /\ svc' = SvcRecord("deletePhotoFromDatabase", user, id, r)
  /\ UNCHANGED <<nextId, clock>>
  /\ ScriptsIdle

ReadOnly == UNCHANGED <<photos, bucket, nextId, clock>> /\ ScriptsIdle

LoadPhotos ==
  /\ \E limit \in PageLimits, offset \in PageOffsets, out \in Outcomes :
       svc' = SvcRecord("loadPhotosFromDatabase", NullUser, 0,
                        loadPhotosFromDatabase(limit, offset, out, photos))
  /\ ReadOnly

LoadAllPhotos ==
  /\ \E out1 \in Outcomes :
     \E out2 \in OutcomesIf(out1 = "ok" /\ Cardinality(DOMAIN photos) >= LoadAllLimit) :
       svc' = SvcRecord("loadAllPhotosFromDatabase", NullUser, 0,
                        loadAllPhotosFromDatabase(<<out1, out2>>, photos))
  /\ ReadOnly

LoadMetadataOnly ==
  /\ \E limit \in PageLimits, offset \in PageOffsets, out \in Outcomes :
       svc' = SvcRecord("loadPhotosMetadataOnly", NullUser, 0,
                        loadPhotosMetadataOnly(limit, offset, out, photos))
  /\ ReadOnly

LoadThumbnail ==
  /\ \E id \in 1..MaxRows, out \in Outcomes :
       svc' = SvcRecord("loadPhotoThumbnail", NullUser, id,
                        loadPhotoThumbnail(id, out, photos))
  /\ ReadOnly

LoadWithThumbnails ==
  /\ \E limit \in PageLimits, offset \in PageOffsets, out \in Outcomes :
       svc' = SvcRecord("loadPhotosWithThumbnails", NullUser, 0,
                        loadPhotosWithThumbnails(limit, offset, out, photos))
  /\ ReadOnly

GetFullImage ==
  /\ \E id \in 1..MaxRows, out \in Outcomes :
       svc' = SvcRecord("getFullImageData", NullUser, id,
                        getFullImageData(id, out, photos))
  /\ ReadOnly

GetOriginalImage ==
  /\ \E id \in 1..MaxRows, out \in Outcomes :
     \E dlOut \in OutcomesIf(out = "ok") :
       svc' = SvcRecord("getOriginalImageData", NullUser, id,
                        getOriginalImageData(id, out, dlOut, photos, bucket))
  /\ ReadOnly

InitService ==
  /\ photos = NoPhotos
  /\ bucket = {}
  /\ nextId = 1
  /\ clock = 1
  /\ svc = SvcIdle
  /\ auth = AuthIdle
  /\ ctx = CtxIdle
  /\ modal = ModalIdle
  /\ cap = CapIdle
  /\ lv = LvIdle
  /\ thumb = ThumbIdle
  /\ mig = MigIdle
  /\ progressFile = NoFile
  /\ app = AppIdle

NextService ==
  \/ SavePhoto
  \/ UpdateType
  \/ UpdateDetails
  \/ DeletePhoto
  \/ LoadPhotos
  \/ LoadAllPhotos
  \/ LoadMetadataOnly
  \/ LoadThumbnail
  \/ LoadWithThumbnails
  \/ GetFullImage
  \/ GetOriginalImage

SpecService == InitService /\ [][NextService]_vars

\* ------------------------------------------------- claims: photo service

CallsOf(name) == {k \in 1..Len(svc.calls) : svc.calls[k].call = name}

\* C1 (as claimed): in savePhotoToDatabase, whenever the original was uploaded
\* and the row insert then fails, by an error result or by an exception, a
\* removal of exactly the uploaded object is attempted before the operation
\* returns, and the operation returns success=false.
C1_CleanupAfterFailedInsert ==
  svc.op = "savePhotoToDatabase" =>
    \A u \in CallsOf("upload"), i \in CallsOf("insert") :
      (svc.calls[u].out = "ok" /\ svc.calls[i].out # "ok") =>
        /\ \E d \in CallsOf("remove") :
              d > i /\ svc.calls[d].arg = svc.calls[u].arg
        /\ svc.ret.kind = "return"
        /\ svc.ret.success = FALSE

\* C1: the case the code handles, an insert that returns an error result
C1_ErrorResultCase ==
  /\ svc.op = "savePhotoToDatabase"
  /\ \E i \in CallsOf("insert") : svc.calls[i].out = "error"
  /\ \E d \in CallsOf("remove") : svc.calls[d].out # "ok"
  /\ svc.ret.success = FALSE

\* C2: deletePhotoFromDatabase called by an admin: when the row deletion
\* succeeds and the removal of the row's storage object then fails, the
\* operation returns success=true and the row is gone.
C2_DeleteSucceedsDespiteStorageFailure ==
  ( /\ svc.op = "deletePhotoFromDatabase"
    /\ checkAdminPermission(svc.user)
    /\ \E d \in CallsOf("delete") : svc.calls[d].out = "ok"
    /\ \E d \in CallsOf("remove") : svc.calls[d].out # "ok" )
  => /\ svc.ret.kind = "return"
     /\ svc.ret.success = TRUE
     /\ svc.photoId \notin DOMAIN photos

C2_Witness ==
  /\ svc.op = "deletePhotoFromDatabase"
  /\ checkAdminPermission(svc.user)
  /\ \E d \in CallsOf("delete") : svc.calls[d].out = "ok"
  /\ \E d \in CallsOf("remove") : svc.calls[d].out = "throw"
  /\ svc.ret.success = TRUE
  /\ svc.photoId \notin DOMAIN photos
  /\ bucket # {}

ServiceOps ==
  {"savePhotoToDatabase", "loadPhotosFromDatabase", "loadAllPhotosFromDatabase",
   "loadPhotosMetadataOnly", "loadPhotoThumbnail", "loadPhotosWithThumbnails",
   "getFullImageData", "getOriginalImageData", "updatePhotoType",
   "updatePhotoDetails", "deletePhotoFromDatabase"}

StoredRow(id, thumbnail, storagePath) ==
  [id |-> id, lat |-> 58, lng |-> 25,
   image_data |-> compressImage("o" \o ToString(id)),
   thumbnail_data |-> thumbnail, storage_path |-> storagePath,
   timestamp |-> id, type |-> "target", name |-> NULL, description |-> NULL,
   created_at |-> id]

StoredThumbnail(id) == createThumbnail(compressImage("o" \o ToString(id)))

\* the tables of at most maxRows rows, ids 1..k, each row with or without a
\* thumbnail
Tables(maxRows) ==
  UNION { { [i \in 1..k |-> StoredRow(i, IF i \in T THEN StoredThumbnail(i) ELSE NULL, NULL)] :
            T \in SUBSET (1..k) } : k \in 0..maxRows }

\* --------------------------------------------------------------- list view

ListLimit == 100

Falsy(v) == v = NULL \/ v = ""

\* a row renders a LazyThumbnail while thumbnailCache[photo.id] is falsy
LazyMounted(l, id) == id \in l.rows /\ Falsy(l.cache[id])

\* LazyThumbnail's state on mount; its effect has created an observer, whose
\* first callback is pending (armed)
LazyInit == [thumbnail |-> NULL, isLoading |-> FALSE, armed |-> TRUE, inflight |-> FALSE]

\* the rows that filter() keeps: all, or those with photo.type === filterBy
FilteredPhotos(loaded, filterBy) ==
  SelectSeq(loaded, LAMBDA photo : filterBy = "all" \/ photo.type = filterBy)

\* the place of a type in the order of localeCompare; a null argument of
\* localeCompare is compared as the text "null"
TypeRank(type) ==
  CASE type = "coins" -> 1
    [] type = NULL -> 2
    [] type = "target" -> 3
    [] OTHER -> 4

\* the comparator of sort(): negative when a goes before b
Compare(sortBy, a, b) ==
  CASE sortBy = "timestamp" -> b.timestamp - a.timestamp
    [] sortBy = "type" -> TypeRank(a.type) - TypeRank(b.type)
    [] sortBy = "location" -> a.lat - b.lat
    [] OTHER -> 0

RECURSIVE SortedIndexes(_, _, _)
\* the indexes I of s in the order of a stable sort with that comparator
SortedIndexes(sortBy, s, I) ==
  IF I = {} THEN <<>>
  ELSE LET before(i) == {j \in I : \/ Compare(sortBy, s[j], s[i]) < 0
                                   \/ (Compare(sortBy, s[j], s[i]) = 0 /\ j < i)}
           m == CHOOSE i \in I : Cardinality(before(i)) = Cardinality(I) \div 2
       IN SortedIndexes(sortBy, s, before(m)) \o <<m>>
            \o SortedIndexes(sortBy, s, I \ (before(m) \cup {m}))

\* Array.prototype.sort with that comparator: a stable sort
SortedBy(sortBy, s) ==
  LET order == SortedIndexes(sortBy, s, 1..Len(s))
  IN [k \in 1..Len(s) |-> s[order[k]]]

NullTyped(s) == {i \in 1..Len(s) : s[i].type = NULL}

\* whether the comparator throws: a.type.localeCompare throws a TypeError
\* when a.type is null. No comparison is made for fewer than two rows; two
\* rows of null type are neighbours in the order, so one of them is compared
\* as a; which of two rows of a comparison is a is left to the engine, so a
\* single null type among other rows may throw or not.
SortThrows(sortBy, s) ==
  IF sortBy # "type" \/ Len(s) < 2 \/ NullTyped(s) = {} THEN {FALSE}
  ELSE IF Cardinality(NullTyped(s)) >= 2 THEN {TRUE}
  ELSE {TRUE, FALSE}

\* the render of ListView: sortedAndFilteredPhotos, or an exception of the
\* comparator, which takes the view down
Render(l, throws) ==
  IF throws THEN [l EXCEPT !.crashed = TRUE, !.shown = <<>>]
  ELSE [l EXCEPT !.shown = SortedBy(l.sortBy, FilteredPhotos(l.photos, l.filterBy))]

\* formatTypeName: "Unknown" for a type that is null or empty
formatTypeName(type) == IF Falsy(type) THEN "Unknown" ELSE type

\* the values of the filter dropdown: "all" and an option for each of
\* uniqueTypes; the option of the null type has no value attribute, and its
\* value is its text
FilterOptions(l) ==
  {"all"} \cup {IF l.photos[k].type = NULL THEN formatTypeName(NULL) ELSE l.photos[k].type :
                  k \in 1..Len(l.photos)}

\* the ids of the loaded photos
LoadedIds(loaded) == {loaded[k].id : k \in 1..Len(loaded)}

\* the state of ListView once the load effect has ended: photos, the toast of
\* a failure, an empty thumbnailCache, a LazyThumbnail for every row
LvLoaded(l, loaded, ids, vis, toast) ==
  [pc |-> "ready", rows |-> ids, toast |-> toast,
   cache |-> [i \in ids |-> NULL],
   lazy |-> [i \in ids |-> LazyInit],
   visible |-> vis,
   requests |-> [i \in ids |-> 0],
   photos |-> loaded, sortBy |-> l.sortBy, filterBy |-> l.filterBy,
   crashed |-> FALSE, shown |-> <<>>]

\* the render that follows a change of the state of ListView
Rerender(l) ==
  \E throws \in SortThrows(l.sortBy, FilteredPhotos(l.photos, l.filterBy)) :
    lv' = Render(l, throws)

\* the load effect of ListView: loadPhotosMetadataOnly(100, 0)
LvLoad ==
  /\ lv.pc = "loading"
  /\ \E out \in Outcomes :
       LET result == loadPhotosMetadataOnly(ListLimit, 0, out, photos).ret
           loaded == IF result.success THEN result.data ELSE <<>>
           toast == IF result.success THEN NULL ELSE "Failed to load photos"
       IN \E vis \in SUBSET (LoadedIds(loaded) \cap 1..MaxListRows) :
            Rerender(LvLoaded(lv, loaded, LoadedIds(loaded), vis, toast))
  /\ UNCHANGED <<photos, bucket, nextId, clock, svc, thumb, mig, progressFile, app, auth, ctx, modal, cap>>

\* the sort dropdown: setSortBy(e.target.value), and the render that follows
SetSortBy(sortBy) ==
  /\ lv.pc = "ready"
  /\ ~lv.crashed
  /\ sortBy # lv.sortBy
  /\ Rerender([lv EXCEPT !.sortBy = sortBy])
  /\ UNCHANGED <<photos, bucket, nextId, clock, svc, thumb, mig, progressFile, app, auth, ctx, modal, cap>>

\* the filter dropdown: setFilterBy(e.target.value), and the render that follows
SetFilterBy(filterBy) ==
  /\ lv.pc = "ready"
  /\ ~lv.crashed
  /\ filterBy \in FilterOptions(lv)
  /\ filterBy # lv.filterBy
  /\ Rerender([lv EXCEPT !.filterBy = filterBy])
  /\ UNCHANGED <<photos, bucket, nextId, clock, svc, thumb, mig, progressFile, app, auth, ctx, modal, cap>>

\* the IntersectionObserver callback of LazyThumbnail; setIsLoading(true)
\* re-runs the effect, which observes anew
ObserverCallbackStarts(l, id) ==
  id \in l.visible /\ Falsy(l.lazy[id].thumbnail) /\ ~l.lazy[id].isLoading

ObserverCallback(id) ==
  /\ lv.pc = "ready"
  /\ LazyMounted(lv, id)
  /\ lv.lazy[id].armed
  /\ IF ObserverCallbackStarts(lv, id)
       THEN /\ lv.requests[id] < MaxRequests
            /\ lv' = [lv EXCEPT !.lazy[id].isLoading = TRUE,
                                !.lazy[id].inflight = TRUE,
                                !.lazy[id].armed = TRUE,
                                !.requests[id] = @ + 1]
       ELSE lv' = [lv EXCEPT !.lazy[id].armed = FALSE]
  /\ UNCHANGED <<photos, bucket, nextId, clock, svc, thumb, mig, progressFile, app, auth, ctx, modal, cap>>

\* the .then of loadPhotoThumbnail(photoId): setThumbnail and onLoad on
\* success, setIsLoading(false) always; the change of isLoading re-runs the
\* effect, which observes anew
ThumbnailResponse(id) ==
  /\ lv.pc = "ready"
  /\ id \in lv.rows
  /\ lv.lazy[id].inflight
  /\ \E out \in Outcomes :
       LET result == loadPhotoThumbnail(id, out, photos).ret
           thumbnail == IF result.success THEN result.data ELSE lv.lazy[id].thumbnail
       IN lv' = [lv EXCEPT !.lazy[id] = [thumbnail |-> thumbnail, isLoading |-> FALSE,
                                          armed |-> TRUE, inflight |-> FALSE],
                           !.cache[id] = IF result.success THEN result.data ELSE @]
  /\ UNCHANGED <<photos, bucket, nextId, clock, svc, thumb, mig, progressFile, app, auth, ctx, modal, cap>>

\* the row scrolls into or out of the observer's root margin; the observer
\* reports the change
Scroll(id) ==
  /\ lv.pc = "ready"
  /\ id \in lv.rows
  /\ lv' = [lv EXCEPT !.visible = IF id \in @ THEN @ \ {id} ELSE @ \cup {id},
                      !.lazy[id].armed = TRUE,
                      !.requests[id] = IF id \in lv.visible THEN 0 ELSE @]
  /\ UNCHANGED <<photos, bucket, nextId, clock, svc, thumb, mig, progressFile, app, auth, ctx, modal, cap>>

InitList ==
  /\ photos \in Tables(MaxListRows)
  /\ bucket = {}
  /\ nextId = Cardinality(DOMAIN photos) + 1
  /\ clock = Cardinality(DOMAIN photos) + 1
  /\ svc = SvcIdle
  /\ auth = AuthIdle
  /\ ctx = CtxIdle
  /\ modal = ModalIdle
  /\ cap = CapIdle
  /\ lv = LvIdle
  /\ thumb = ThumbIdle
  /\ mig = MigIdle
  /\ progressFile = NoFile
  /\ app = AppIdle

NextList ==
  \/ LvLoad
  \/ \E id \in 1..MaxListRows : ObserverCallback(id)
  \/ \E id \in 1..MaxListRows : ThumbnailResponse(id)
  \/ \E id \in 1..MaxListRows : Scroll(id)

SpecList == InitList /\ [][NextList]_vars

\* C4 (as claimed): the thumbnail of a list row is requested at most once
\* while the row stays visible, whether the request returns a thumbnail, a
\* failure, or an empty stored thumbnail.
C4_ThumbnailRequestedOnce ==
  \A id \in lv.rows : lv.requests[id] <= 1

\* C4: the case that does hold, a thumbnail was returned and cached
C4_LoadedOnce ==
  \E id \in lv.rows :
    /\ ~Falsy(lv.cache[id])
    /\ id \in lv.visible
    /\ lv.requests[id] = 1

\* -------------------------------------------------------- thumbnail scripts
\* regenerate-thumbnails.js (--all, --id, --limit, --dry-run) and
\* generate-thumbnails.js (--limit, --regenerate) share their code.

FETCH_BATCH_SIZE == 3
MAX_RETRIES == 3
RegenerateQuality == 85
GenerateQuality == 80

\* the outcome of a query of the scripts: ok, an error whose message names a
\* timeout ("timeout", "canceling statement"), or another error
QueryOutcomes == {"ok", "timeout", "error"}

\* mutant of RetryDelay: a constant delay
RetryDelay_Constant(attempt) == 2000

\* retryOperation: const delay = attempt * 2000
RetryDelay(attempt) == attempt * 2000

\* retryOperation: if (isTimeout && attempt < maxRetries)
ShouldRetry(out, attempt) == out = "timeout" /\ attempt < MAX_RETRIES

\* createThumbnail of the scripts (sharp, jpeg quality of THUMBNAIL_CONFIG)
ScriptThumbnail(base64Image, quality) ==
  "t" \o ToString(quality) \o "(" \o base64Image \o ")"

ThumbQuality(t) == IF t.script = "regenerate" THEN RegenerateQuality ELSE GenerateQuality

\* const fetchSize = limit ? Math.min(FETCH_BATCH_SIZE, limit - processed) : FETCH_BATCH_SIZE
FetchSize(t) ==
  IF t.limit # 0 THEN Min2(FETCH_BATCH_SIZE, t.limit - t.processed)
  ELSE FETCH_BATCH_SIZE

LimitReached(t) == t.limit # 0 /\ t.processed >= t.limit

Snapshot(P, ids) ==
  [k \in 1..Len(ids) |-> [id |-> ids[k], image_data |-> P[ids[k]].image_data]]

\* the rows a page query selects from: getAllPhotos, getPhotosWithThumbnails
\* (.not("thumbnail_data", "is", null)), getPhotosWithoutThumbnails
\* (.is("thumbnail_data", null))
PageCandidates(t, P) ==
  IF t.script = "regenerate" THEN DOMAIN P
  ELSE IF t.regenerateMode THEN {i \in DOMAIN P : P[i].thumbnail_data # NULL}
  ELSE {i \in DOMAIN P : P[i].thumbnail_data = NULL}

\* .order("created_at", { ascending: true }).range(offset, offset + limit - 1)
PageQuery(t, P, limit, offset) ==
  Snapshot(P, Range(OrderedAsc(P, PageCandidates(t, P)), offset, offset + limit - 1))

\* getPhotosByIds: .in("id", ids)
PhotosByIds(P, ids) == Snapshot(P, OrderedAsc(P, ids \cap DOMAIN P))

\* mutant of updatePhotoWithThumbnail: the image payload is written too
updatePhotoWithThumbnail_AlsoImage(photoId, thumbnailData, out, P) ==
  IF out = "ok"
    THEN [photos |-> IF photoId \in DOMAIN P
                       THEN [P EXCEPT ![photoId].thumbnail_data = thumbnailData,
                                      ![photoId].image_data = thumbnailData]
                       ELSE P,
          success |-> TRUE, thrown |-> FALSE]
    ELSE [photos |-> P, success |-> FALSE, thrown |-> FALSE]

\* updatePhotoWithThumbnail: true, or false for an error result or exception
updatePhotoWithThumbnail(photoId, thumbnailData, out, P) ==
  IF out = "ok"
    THEN [photos |-> IF photoId \in DOMAIN P
                       THEN [P EXCEPT ![photoId].thumbnail_data = thumbnailData]
                       ELSE P,
          success |-> TRUE, thrown |-> FALSE]
    ELSE [photos |-> P, success |-> FALSE, thrown |-> FALSE]

\* the outcomes of the update request: ok, an error result whose message
\* names a timeout, another error result, or an exception of the client
UpdateOutcomes == {"ok", "timeout", "error", "throw"}

RECURSIVE RetryUpdate(_, _, _, _, _)
\* retryOperation(() => updatePhotoWithThumbnail(id, thumbnail)): the
\* operation is repeated only when it throws a timeout before the last
\* attempt; what it returns is returned at once
RetryUpdate(photoId, thumbnailData, outs, attempt, P) ==
  LET up == updatePhotoWithThumbnail(photoId, thumbnailData, outs[attempt], P)
  IN IF up.thrown /\ ShouldRetry(outs[attempt], attempt)
       THEN RetryUpdate(photoId, thumbnailData, outs, attempt + 1, P)
       ELSE [photos |-> up.photos, success |-> up.success,
             updLog |-> SubSeq(outs, 1, attempt)]

\* mutant of ProcessOne: the --dry-run branch is missing
ProcessOne_NoDryRun(t, photo, createOut, updOuts, P) ==
  IF createOut # "ok" \/ photo.image_data = NULL
    THEN [photos |-> P, processed |-> t.processed, successful |-> t.successful,
          failed |-> t.failed + 1, anyError |-> TRUE, updLog |-> <<>>]
  ELSE
    LET up == RetryUpdate(
                photo.id, ScriptThumbnail(photo.image_data, ThumbQuality(t)),
                updOuts, 1, P)
    IN [photos |-> up.photos, processed |-> t.processed + 1,
        successful |-> t.successful + (IF up.success THEN 1 ELSE 0),
        failed |-> t.failed + (IF up.success THEN 0 ELSE 1),
        anyError |-> t.anyError \/ ~up.success, updLog |-> up.updLog]

\* the body of processBatch's loop for one photo
ProcessOne(t, photo, createOut, updOuts, P) ==
  IF t.dryRun
    THEN [photos |-> P, processed |-> t.processed + 1,
          successful |-> t.successful + 1, failed |-> t.failed,
          anyError |-> t.anyError, updLog |-> <<>>]
  ELSE IF createOut # "ok" \/ photo.image_data = NULL
    \* createThumbnail threw: caught by the loop's catch, processed is not counted
    THEN [photos |-> P, processed |-> t.processed, successful |-> t.successful,
          failed |-> t.failed + 1, anyError |-> TRUE, updLog |-> <<>>]
  ELSE
    LET up == RetryUpdate(
                photo.id, ScriptThumbnail(photo.image_data, ThumbQuality(t)),
                updOuts, 1, P)
    IN [photos |-> up.photos, processed |-> t.processed + 1,
        successful |-> t.successful + (IF up.success THEN 1 ELSE 0),
        failed |-> t.failed + (IF up.success THEN 0 ELSE 1),
        anyError |-> t.anyError \/ ~up.success, updLog |-> up.updLog]

ThumbLimits == {0, 2}
ThumbIdSets == {{2}, {1, 3}}

ThumbFrame == UNCHANGED <<bucket, nextId, clock, svc, lv, mig, progressFile, app, auth, ctx, modal, cap>>

StartedRun(script, mode, ids, limit, dryRun, regenerateMode, P) ==
  [ThumbIdle EXCEPT !.pc = IF mode = "ids" THEN "fetchIds" ELSE "fetch",
                    !.script = script, !.mode = mode, !.ids = ids,
                    !.limit = limit, !.dryRun = dryRun,
                    !.regenerateMode = regenerateMode,
                    !.startMissing = {i \in DOMAIN P : P[i].thumbnail_data = NULL}]

\* node regenerate-thumbnails.js --all | --id=... [--limit=N] [--dry-run]
StartRegenerate ==
  /\ thumb.pc = "idle"
  /\ \E mode \in {"all", "ids"}, dryRun \in BOOLEAN :
     \E ids \in IF mode = "ids" THEN ThumbIdSets ELSE {{}} :
     \E limit \in IF mode = "all" THEN ThumbLimits ELSE {0} :
       thumb' = StartedRun("regenerate", mode, ids, limit, dryRun, FALSE, photos)
  /\ UNCHANGED photos
  /\ ThumbFrame

\* node generate-thumbnails.js [--limit=N] [--regenerate]
StartGenerate ==
  /\ thumb.pc = "idle"
  /\ \E limit \in ThumbLimits, regenerateMode \in BOOLEAN :
       thumb' = StartedRun("generate", "all", {}, limit, FALSE, regenerateMode, photos)
  /\ UNCHANGED photos
  /\ ThumbFrame

\* --id mode: getPhotosByIds, not retried; an error is fatal
ThumbFetchIds ==
  /\ thumb.pc = "fetchIds"
  /\ \E out \in QueryOutcomes :
       IF out = "ok"
         THEN LET b == PhotosByIds(photos, thumb.ids)
              IN thumb' = [thumb EXCEPT !.batch = b, !.i = 1, !.hasMore = FALSE,
                             !.pc = IF Len(b) = 0 THEN "done" ELSE "process",
                             !.exitCode = IF Len(b) = 0 THEN 0 ELSE @]
         ELSE thumb' = [thumb EXCEPT !.pc = "failed", !.exitCode = 1,
                                     !.anyError = TRUE]
  /\ UNCHANGED photos
  /\ ThumbFrame

\* while (hasMore) { if (limit && processed >= limit) break; ... }
ThumbLoopExit ==
  /\ thumb.pc = "fetch"
  /\ ~thumb.hasMore \/ LimitReached(thumb)
  /\ thumb' = [thumb EXCEPT !.pc = "done", !.exitCode = 0]
  /\ UNCHANGED photos
  /\ ThumbFrame

\* one attempt of retryOperation(() => getAllPhotos(fetchSize, offset))
ThumbFetchPage ==
  /\ thumb.pc = "fetch"
  /\ thumb.hasMore /\ ~LimitReached(thumb)
  /\ \E out \in QueryOutcomes :
       LET log == Append(thumb.fetchLog, out)
       IN
       IF out = "ok"
         THEN LET b == PageQuery(thumb, photos, FetchSize(thumb), thumb.offset)
              IN thumb' = [thumb EXCEPT
                     !.fetchLog = log, !.batch = b, !.i = 1,
                     !.hasMore = (Len(b) = FetchSize(thumb)),
                     !.pc = IF Len(b) = 0 THEN "done" ELSE "process",
                     !.exitCode = IF Len(b) = 0 THEN 0 ELSE @]
       ELSE IF ShouldRetry(out, thumb.attempt)
         THEN thumb' = [thumb EXCEPT
                     !.fetchLog = log, !.anyError = TRUE,
                     !.delays = Append(@, RetryDelay(thumb.attempt)),
                     !.attempt = @ + 1]
         ELSE thumb' = [thumb EXCEPT !.fetchLog = log, !.anyError = TRUE,
                                     !.pc = "failed", !.exitCode = 1]
  /\ UNCHANGED photos
  /\ ThumbFrame

\* processBatch on the next photo of the fetched page; after the last one
\* offset += FETCH_BATCH_SIZE and the loop goes round
ThumbProcessPhoto ==
  /\ thumb.pc = "process"
  /\ \E createOut \in OutcomesIf(~thumb.dryRun) \ {"error"} :
     \E updOuts \in IF ~thumb.dryRun /\ createOut = "ok"
                          /\ thumb.batch[thumb.i].image_data # NULL
                       THEN [1..MAX_RETRIES -> UpdateOutcomes]
                       ELSE {[k \in 1..MAX_RETRIES |-> "ok"]} :
       LET r == ProcessOne(thumb, thumb.batch[thumb.i], createOut, updOuts, photos)
           last == thumb.i = Len(thumb.batch)
       IN /\ photos' = r.photos
          /\ thumb' = [thumb EXCEPT
               !.processed = r.processed, !.successful = r.successful,
               !.failed = r.failed, !.anyError = r.anyError,
               !.updLog = r.updLog,
               !.i = @ + 1,
               !.offset = IF last /\ thumb.mode = "all" THEN @ + FETCH_BATCH_SIZE ELSE @,
               !.attempt = IF last THEN 1 ELSE @,
               !.delays = IF last THEN <<>> ELSE @,
               !.fetchLog = IF last THEN <<>> ELSE @,
               !.pc = IF ~last THEN "process"
                      ELSE IF thumb.mode = "all" THEN "fetch" ELSE "done",
               !.exitCode = IF last /\ thumb.mode = "ids" THEN 0 ELSE @]
  /\ ThumbFrame

InitThumb ==
  /\ photos \in Tables(MaxThumbRows)
  /\ bucket = {}
  /\ nextId = Cardinality(DOMAIN photos) + 1
  /\ clock = Cardinality(DOMAIN photos) + 1
  /\ svc = SvcIdle
  /\ auth = AuthIdle
  /\ ctx = CtxIdle
  /\ modal = ModalIdle
  /\ cap = CapIdle
  /\ lv = LvIdle
  /\ thumb = ThumbIdle
  /\ mig = MigIdle
  /\ progressFile = NoFile
  /\ app = AppIdle

NextThumb ==
  \/ StartRegenerate
  \/ StartGenerate
  \/ ThumbFetchIds
  \/ ThumbLoopExit
  \/ ThumbFetchPage
  \/ ThumbProcessPhoto

SpecThumb == InitThumb /\ [][NextThumb]_vars

DefaultGenerateRunDone ==
  /\ thumb.script = "generate"
  /\ ~thumb.regenerateMode
  /\ thumb.limit = 0
  /\ thumb.pc = "done"
  /\ ~thumb.anyError

\* C6: a run of generate-thumbnails.js in its default mode, without errors,
\* ends with a thumbnail on every photo that had none when the run started.
C6_EveryMissingThumbnailGenerated ==
  DefaultGenerateRunDone =>
    \A i \in thumb.startMissing : photos[i].thumbnail_data # NULL

\* C6's case with a table on which the run does complete the work
C6_SmallTableCompleted ==
  /\ DefaultGenerateRunDone
  /\ thumb.startMissing # {}
  /\ \A i \in thumb.startMissing : photos[i].thumbnail_data # NULL

\* ---------------------------------------------------------- image migration
\* migrate-images-to-storage.js [--batch-size=N] [--dry-run] [--resume] [--cleanup]

DEFAULT_BATCH_SIZE == 10

BatchSizes == {1, DEFAULT_BATCH_SIZE}

\* createUniqueFilename: `${userId}/${dateStr}_${filename}`; the rows that
\* lack a storage path predate the user_id and filename columns
createUniqueFilename(photo) ==
  "unknown/" \o ToString(photo.timestamp) \o "_photo.jpg"

\* a row already migrated
MigratedRow(id) ==
  LET r == StoredRow(id, StoredThumbnail(id), NULL)
  IN [r EXCEPT !.storage_path = createUniqueFilename(r)]

\* the tables of at most maxRows rows, each migrated already or not yet
MigTables(maxRows) ==
  UNION { { [i \in 1..k |-> IF i \in T THEN MigratedRow(i)
                            ELSE StoredRow(i, StoredThumbnail(i), NULL)] :
            T \in SUBSET (1..k) } : k \in 0..maxRows }

StoredPaths(P) ==
  {P[i].storage_path : i \in {j \in DOMAIN P : P[j].storage_path # NULL}}

\* loadProgress: the progress file if there is one, whether or not --resume
\* was given
loadProgress(file) ==
  IF file.exists
    THEN [processed |-> file.processed, successful |-> file.successful,
          failed |-> file.failed, lastProcessedId |-> file.lastProcessedId]
    ELSE [processed |-> 0, successful |-> 0, failed |-> 0, lastProcessedId |-> 0]

\* saveProgress: fs.writeFileSync(PROGRESS_FILE, ...)
saveProgress(progress) ==
  [exists |-> TRUE, processed |-> progress.processed,
   successful |-> progress.successful, failed |-> progress.failed,
   lastProcessedId |-> progress.lastProcessedId]

\* uploadToStorage: upload with upsert false
uploadToStorage(filename, out, B) == StorageUpload(filename, out, B)

\* updatePhotoStoragePath: update({ storage_path }).eq("id", photoId)
updatePhotoStoragePath(photoId, storagePath, out, P) ==
  IF out = "ok" /\ photoId \in DOMAIN P
    THEN [P EXCEPT ![photoId].storage_path = storagePath]
    ELSE P

\* cleanupBase64Data: update({ image_data: null, thumbnail_data: null }).
\* supabase-schema.sql declares image_data NOT NULL; a database that keeps
\* the constraint answers with an error, which is one of the outcomes
cleanupBase64Data(photoId, out, P) ==
  IF out = "ok" /\ photoId \in DOMAIN P
    THEN [P EXCEPT ![photoId].image_data = NULL, ![photoId].thumbnail_data = NULL]
    ELSE P

\* the rows getPhotosToMigrate and getTotalPhotosToMigrate select from
Unmigrated(P) ==
  {i \in DOMAIN P : P[i].storage_path = NULL /\ P[i].image_data # NULL}

\* mutant of MigCandidates: the progress is not used
MigCandidates_IgnoresProgress(P, lastProcessedId) == Unmigrated(P)

\* getPhotosToMigrate: ... .gt("id", lastProcessedId)
MigCandidates(P, lastProcessedId) ==
  {i \in Unmigrated(P) : i > lastProcessedId}

RECURSIVE AscendingIds(_)
AscendingIds(S) ==
  IF S = {} THEN <<>>
  ELSE LET m == CHOOSE i \in S : \A j \in S : i <= j
       IN <<m>> \o AscendingIds(S \ {m})

\* getPhotosToMigrate: .order("id", { ascending: true }).limit(batchSize)
getPhotosToMigrate(batchSize, lastProcessedId, P) ==
  LET ids == Range(AscendingIds(MigCandidates(P, lastProcessedId)), 0, batchSize - 1)
  IN [k \in 1..Len(ids) |->
        [id |-> ids[k], image_data |-> P[ids[k]].image_data,
         storage_path |-> P[ids[k]].storage_path,
         timestamp |-> P[ids[k]].timestamp]]

\* getTotalPhotosToMigrate: the count, 0 when the count query fails
getTotalPhotosToMigrate(out, P) ==
  IF out = "ok" THEN Cardinality(Unmigrated(P)) ELSE 0

\* mutant of processPhoto: the payloads are cleared although the pointer
\* update failed
processPhoto_CleanupAnyway(photo, dryRun, cleanup, upOut, updOut, clnOut, P, B) ==
  LET up == uploadToStorage(createUniqueFilename(photo), upOut, B)
      P1 == updatePhotoStoragePath(photo.id, createUniqueFilename(photo), updOut, P)
  IN IF dryRun
       THEN [photos |-> P, bucket |-> B, success |-> TRUE, skipped |-> TRUE,
             uploadRequested |-> FALSE]
     ELSE IF up.out # "ok"
       THEN [photos |-> P, bucket |-> up.bucket, success |-> FALSE,
             skipped |-> FALSE, uploadRequested |-> TRUE]
     ELSE [photos |-> IF cleanup THEN cleanupBase64Data(photo.id, clnOut, P1) ELSE P1,
           bucket |-> up.bucket,
           success |-> updOut = "ok" /\ (cleanup => clnOut = "ok"),
           skipped |-> FALSE, uploadRequested |-> TRUE]

\* processPhoto: skip checks, upload, pointer update, cleanup on request; any
\* exception ends it with success false
processPhoto(photo, dryRun, cleanup, upOut, updOut, clnOut, P, B) ==
  LET skip == [photos |-> P, bucket |-> B, success |-> TRUE, skipped |-> TRUE,
               uploadRequested |-> FALSE]
      up == uploadToStorage(createUniqueFilename(photo), upOut, B)
      P1 == updatePhotoStoragePath(photo.id, createUniqueFilename(photo), updOut, P)
  IN IF photo.storage_path # NULL THEN skip
     ELSE IF photo.image_data = NULL THEN skip
     ELSE IF dryRun THEN skip
     ELSE IF up.out # "ok"
       THEN [photos |-> P, bucket |-> up.bucket, success |-> FALSE,
             skipped |-> FALSE, uploadRequested |-> TRUE]
     ELSE IF updOut # "ok"
       THEN [photos |-> P, bucket |-> up.bucket, success |-> FALSE,
             skipped |-> FALSE, uploadRequested |-> TRUE]
     ELSE IF cleanup
       THEN [photos |-> cleanupBase64Data(photo.id, clnOut, P1),
             bucket |-> up.bucket, success |-> clnOut = "ok",
             skipped |-> FALSE, uploadRequested |-> TRUE]
     ELSE [photos |-> P1, bucket |-> up.bucket, success |-> TRUE,
           skipped |-> FALSE, uploadRequested |-> TRUE]

\* the number of upload requests made for each photo, over all runs
CountUpload(u, id) ==
  IF id \in DOMAIN u THEN [u EXCEPT ![id] = @ + 1]
  ELSE [j \in DOMAIN u \cup {id} |-> IF j = id THEN 1 ELSE u[j]]

MigFrame == UNCHANGED <<nextId, clock, svc, lv, thumb, app, auth, ctx, modal, cap>>

\* runMigration up to the loop: options, loadProgress, getTotalPhotosToMigrate
MigStart ==
  /\ mig.pc \in {"idle", "done", "failed"}
  /\ mig.runs < MaxRuns
  /\ \E dryRun \in BOOLEAN, resume \in BOOLEAN, cleanup \in BOOLEAN :
     \E batchSize \in BatchSizes, countOut \in Outcomes :
       LET progress == loadProgress(progressFile)
           total == getTotalPhotosToMigrate(countOut, photos)
       IN mig' = [mig EXCEPT
            !.runs = @ + 1, !.dryRun = dryRun, !.resume = resume,
            !.cleanup = cleanup, !.batchSize = batchSize,
            !.processed = progress.processed,
            !.successful = progress.successful, !.failed = progress.failed,
            !.lastProcessedId = progress.lastProcessedId,
            !.startId = progress.lastProcessedId, !.saves = 0,
            !.batch = <<>>, !.i = 1,
            !.pc = IF total = 0 THEN "done" ELSE "fetch",
            !.exitCode = IF total = 0 THEN 0 ELSE -1]
  /\ UNCHANGED <<photos, bucket, progressFile>>
  /\ MigFrame

\* the loop head: getPhotosToMigrate; an empty batch ends the run, and the
\* progress file is removed when nothing failed
MigFetch ==
  /\ mig.pc = "fetch"
  /\ \E out \in Outcomes :
       LET b == getPhotosToMigrate(mig.batchSize, mig.lastProcessedId, photos)
       IN
       IF out # "ok"
         THEN /\ mig' = [mig EXCEPT !.pc = "failed", !.exitCode = 1]
              /\ UNCHANGED progressFile
       ELSE IF Len(b) > 0
         THEN /\ mig' = [mig EXCEPT !.pc = "process", !.batch = b, !.i = 1]
              /\ UNCHANGED progressFile
       ELSE IF mig.failed > 0
         THEN /\ mig' = [mig EXCEPT !.pc = "done", !.exitCode = 0, !.batch = b]
              /\ UNCHANGED progressFile
       ELSE IF progressFile.exists
         THEN /\ mig' = [mig EXCEPT !.pc = "done", !.exitCode = 0, !.batch = b]
              /\ progressFile' = NoFile
         \* fs.unlinkSync of a missing file throws
         ELSE /\ mig' = [mig EXCEPT !.pc = "failed", !.exitCode = 1, !.batch = b]
              /\ UNCHANGED progressFile
  /\ UNCHANGED <<photos, bucket>>
  /\ MigFrame

\* the loop body for one photo: processPhoto, the counters, saveProgress
MigProcessPhoto ==
  /\ mig.pc = "process"
  /\ LET photo == mig.batch[mig.i]
         acts == ~mig.dryRun /\ photo.storage_path = NULL /\ photo.image_data # NULL
     IN
     \E upOut \in OutcomesIf(acts) :
     \E updOut \in OutcomesIf(acts /\ upOut = "ok") :
     \E clnOut \in OutcomesIf(acts /\ upOut = "ok" /\ updOut = "ok" /\ mig.cleanup) :
       LET r == processPhoto(photo, mig.dryRun, mig.cleanup, upOut, updOut,
                             clnOut, photos, bucket)
           progress ==
             [processed |-> mig.processed + 1,
              successful |-> mig.successful +
                               (IF r.success /\ ~r.skipped THEN 1 ELSE 0),
              failed |-> mig.failed + (IF r.success THEN 0 ELSE 1),
              lastProcessedId |-> photo.id]
           last == mig.i = Len(mig.batch)
       IN /\ photos' = r.photos
          /\ bucket' = r.bucket
          /\ progressFile' = saveProgress(progress)
          /\ mig' = [mig EXCEPT
               !.processed = progress.processed,
               !.successful = progress.successful,
               !.failed = progress.failed,
               !.lastProcessedId = progress.lastProcessedId,
               !.saves = @ + 1,
               !.uploads = IF r.uploadRequested THEN CountUpload(@, photo.id) ELSE @,
               !.i = @ + 1,
               !.pc = IF last THEN "fetch" ELSE "process"]
  /\ MigFrame

InitMig ==
  /\ photos \in MigTables(MaxMigRows)
  /\ bucket = StoredPaths(photos)
  /\ nextId = Cardinality(DOMAIN photos) + 1
  /\ clock = Cardinality(DOMAIN photos) + 1
  /\ svc = SvcIdle
  /\ auth = AuthIdle
  /\ ctx = CtxIdle
  /\ modal = ModalIdle
  /\ cap = CapIdle
  /\ lv = LvIdle
  /\ thumb = ThumbIdle
  /\ mig = MigIdle
  /\ progressFile = NoFile
  /\ app = AppIdle

NextMig ==
  \/ MigStart
  \/ MigFetch
  \/ MigProcessPhoto

SpecMig == InitMig /\ [][NextMig]_vars

\* C7: with --cleanup the migration clears a row's image and thumbnail
\* payloads only after the upload and the pointer update succeeded: a row
\* whose payload is empty has a storage pointer, and the file it points to
\* is in the bucket; no row has an empty payload and a null pointer.
C7_CleanupOnlyAfterPointerSet ==
  \A i \in DOMAIN photos :
    (photos[i].image_data = NULL \/ photos[i].thumbnail_data = NULL) =>
      /\ photos[i].storage_path # NULL
      /\ photos[i].storage_path = createUniqueFilename(photos[i])
      /\ photos[i].storage_path \in bucket

\* C7 happens: a --cleanup run has cleared the payloads of a row
C7_Witness ==
  /\ mig.cleanup
  /\ \E i \in DOMAIN photos :
       /\ photos[i].image_data = NULL
       /\ photos[i].thumbnail_data = NULL
       /\ photos[i].storage_path \in bucket

\* C8: the migration writes its counters and lastProcessedId to the progress
\* file after each processed photo; a run that starts from a progress file
\* fetches only photos with an id above the recorded lastProcessedId; and no
\* photo gets a second upload request, in the same or in a later run.
C8_ResumeUploadsNothingTwice ==
  /\ (mig.saves > 0 /\ ~(mig.pc = "done" /\ mig.failed = 0)) =>
       progressFile = saveProgress(mig)
  /\ \A k \in 1..Len(mig.batch) : mig.batch[k].id > mig.startId
  /\ mig.lastProcessedId >= mig.startId
  /\ \A i \in DOMAIN mig.uploads : mig.uploads[i] <= 1

\* C8 happens: a second run started from the progress of the first, which had
\* uploaded photo 1, and has processed a later photo
C8_Witness ==
  /\ mig.runs = 2
  /\ mig.startId > 0
  /\ mig.saves > 0
  /\ 1 \in DOMAIN mig.uploads
  /\ mig.lastProcessedId > mig.startId

\* ------------------------------------------- the application and the scripts
\* One table and one bucket, used by the application or maintained by the
\* scripts: a behaviour is a session of the application, a run of a thumbnail
\* script, or runs of the migration.

AllTables(maxRows) == Tables(maxRows) \cup MigTables(maxRows)

AppUnused == svc = SvcIdle

ScriptsUnused == thumb = ThumbIdle /\ mig = MigIdle

InitAll ==
  /\ photos \in AllTables(MaxRows)
  /\ bucket = StoredPaths(photos)
  /\ nextId = Cardinality(DOMAIN photos) + 1
  /\ clock = Cardinality(DOMAIN photos) + 1
  /\ svc = SvcIdle
  /\ auth = AuthIdle
  /\ ctx = CtxIdle
  /\ modal = ModalIdle
  /\ cap = CapIdle
  /\ lv = LvIdle
  /\ thumb = ThumbIdle
  /\ mig = MigIdle
  /\ progressFile = NoFile
  /\ app = AppIdle

NextAll ==
  \/ ScriptsUnused /\ NextService
  \/ AppUnused /\ mig = MigIdle /\ NextThumb
  \/ AppUnused /\ thumb = ThumbIdle /\ NextMig

SpecAll == InitAll /\ [][NextAll]_vars

\* C9: a step of a script run with --dry-run (the image migration or
\* regenerate-thumbnails) changes neither the photos table nor the bucket.
C9_DryRunChangesNothing ==
  [][((mig' # mig /\ mig'.dryRun) \/ (thumb' # thumb /\ thumb'.dryRun))
       => (photos' = photos /\ bucket' = bucket)]_vars

\* C9 happens: a dry run of the migration has visited a photo that needs
\* migration and has finished
C9_Witness ==
  /\ mig.dryRun
  /\ mig.saves > 0
  /\ mig.pc = "done"
  /\ mig.lastProcessedId \in Unmigrated(photos)

\* C10 as stated: no step changes the latitude, longitude, image payload or
\* storage pointer of a row that exists before and after the step.
C10_ImageAndPointerNeverChange ==
  [][\A i \in DOMAIN photos \cap DOMAIN photos' :
       /\ photos'[i].lat = photos[i].lat
       /\ photos'[i].lng = photos[i].lng
       /\ photos'[i].image_data = photos[i].image_data
       /\ photos'[i].storage_path = photos[i].storage_path]_vars

\* C10 amended: latitude and longitude of an existing row never change; the
\* category changes only by updatePhotoType, name and description only by
\* updatePhotoDetails, the thumbnail only by a thumbnail script or by the
\* migration's cleanup; the storage pointer changes only by a migration run
\* that is not a dry run, from null to the path of the uploaded file; the
\* image payload changes only by a migration run with --cleanup, which
\* clears it on a row whose pointer is set.
C10_OnlyEditsThumbnailsAndMigration ==
  [][\A i \in DOMAIN photos \cap DOMAIN photos' :
       LET a == photos[i]
           b == photos'[i]
           migrates == mig' # mig /\ ~mig.dryRun
       IN /\ b.id = a.id /\ b.lat = a.lat /\ b.lng = a.lng
          /\ b.timestamp = a.timestamp /\ b.created_at = a.created_at
          /\ b.type # a.type => svc'.op = "updatePhotoType"
          /\ (b.name # a.name \/ b.description # a.description)
               => svc'.op = "updatePhotoDetails"
          /\ b.thumbnail_data # a.thumbnail_data =>
               \/ thumb' # thumb /\ ~thumb.dryRun /\ b.thumbnail_data # NULL
                    /\ b.image_data = a.image_data
               \/ migrates /\ mig.cleanup /\ b.thumbnail_data = NULL
          /\ b.storage_path # a.storage_path =>
               /\ migrates
               /\ a.storage_path = NULL
               /\ b.storage_path = createUniqueFilename(a)
               /\ b.storage_path \in bucket'
          /\ b.image_data # a.image_data =>
               /\ migrates /\ mig.cleanup
               /\ b.image_data = NULL
               /\ b.storage_path # NULL]_vars

\* C10 happens: the migration has set the pointer of a row that existed
\* before the run and has kept its payload
C10_Witness ==
  \E i \in DOMAIN photos :
    /\ i \in DOMAIN mig.uploads
    /\ photos[i].storage_path = createUniqueFilename(photos[i])
    /\ photos[i].image_data # NULL
    /\ ~mig.cleanup

\* C11: every row inserted by savePhotoToDatabase carries the compressed
\* image, the thumbnail of the compressed image (not of the original) and
\* the path that the successful upload of its original returned; when the
\* upload fails no row is inserted.
C11_InsertedRowCarriesUploadedPath ==
  [][/\ \A i \in DOMAIN photos' \ DOMAIN photos :
          LET r == photos'[i]
          IN /\ svc'.op = "savePhotoToDatabase"
             /\ \E img \in Originals :
                  /\ r.image_data = compressImage(img)
                  /\ r.thumbnail_data = createThumbnail(compressImage(img))
                  /\ r.thumbnail_data # createThumbnail(img)
             /\ r.storage_path # NULL
             /\ r.storage_path \in bucket'
             /\ \E k \in 1..Len(svc'.calls) :
                  /\ svc'.calls[k].call = "upload"
                  /\ svc'.calls[k].out = "ok"
                  /\ svc'.calls[k].arg = r.storage_path
     /\ (\E k \in 1..Len(svc'.calls) :
           svc'.calls[k].call = "upload" /\ svc'.calls[k].out # "ok")
          => photos' = photos]_vars

\* C11 happens: a save has inserted a row whose original is in the bucket
C11_Witness ==
  /\ svc.op = "savePhotoToDatabase"
  /\ svc.ret.success
  /\ svc.photoId \in DOMAIN photos
  /\ photos[svc.photoId].storage_path \in bucket

WriteOps ==
  {"savePhotoToDatabase", "updatePhotoType", "updatePhotoDetails",
   "deletePhotoFromDatabase"}

\* C12: a write operation called with a null user, or with a user whose
\* admin value is not the boolean true, returns success false, makes no
\* backend request and leaves the table and the bucket unchanged.
C12_NonAdminWritesNothing ==
  /\ []((svc.op \in WriteOps /\ (svc.user.isNull \/ svc.user.admin # "true"))
          => /\ svc.ret.kind = "return"
             /\ ~svc.ret.success
             /\ svc.calls = <<>>)
  /\ [][(svc'.op \in WriteOps /\ (svc'.user.isNull \/ svc'.user.admin # "true"))
          => (photos' = photos /\ bucket' = bucket /\ nextId' = nextId)]_vars

\* C12 happens: a user whose admin value is truthy but not true was refused
\* a delete of an existing row
C12_Witness ==
  /\ svc.op = "deletePhotoFromDatabase"
  /\ ~svc.user.isNull
  /\ svc.user.admin = "yes"
  /\ svc.photoId \in DOMAIN photos
  /\ ~svc.ret.success

\* ------------------------------------------------ App, the URL and the map
\* App.jsx (currentView, handleViewChange), ListView's handleJumpToMap and
\* MapComponent's location effect, map handlers and photo capture.

DefaultLocation == <<585953000, 250136000>>
DefaultZoom == 15
JumpZoom == 18

NumParam(n) == [kind |-> "num", n |-> n]
TextParam == [kind |-> "text", n |-> 0]

\* mutant of toFixed6: the digits after the sixth are cut off
toFixed6_Truncates(x) == x \div 10

\* Number.prototype.toFixed(6): the nearest number of 1e-6 degrees, the
\* larger one of two
toFixed6(x) == (x + 5) \div 10

\* parseFloat of a parameter that spells a number of 1e-6 degrees
parseFloat6(p) == p.n * 10

isNaN(p) == p.kind # "num"

\* readURLParams: the three values, or null unless all three parse
readURLParams(url) ==
  IF ~isNaN(url.lat) /\ ~isNaN(url.lng) /\ ~isNaN(url.zoom)
    THEN [ok |-> TRUE, lat |-> parseFloat6(url.lat), lng |-> parseFloat6(url.lng),
          zoom |-> url.zoom.n]
    ELSE [ok |-> FALSE, lat |-> 0, lng |-> 0, zoom |-> 0]

\* AuthContext: isAdmin = user.user_metadata?.admin === true
isAdmin(user) == IF user.isNull THEN FALSE ELSE user.admin = "true"

\* CenterOnLocation: mapZoom || 15
ZoomOrDefault(zoom) == IF zoom # 0 THEN zoom ELSE 15

\* the render that follows setIsLoading(false): MapContainer is created with
\* center={mapCenter || userLocation} and zoom={mapZoom}; CenterOnLocation's
\* effect then sets the view when showLocation && mapCenter
Rendered(m) ==
  LET created ==
        IF m.hasView \/ m.isLoading THEN m
        ELSE [m EXCEPT !.hasView = TRUE,
                       !.viewCenter = IF m.hasCenter THEN m.mapCenter
                                      ELSE m.userLocation,
                       !.viewZoom = m.mapZoom]
  IN IF created.hasView /\ created.showLocation /\ created.hasCenter
       THEN [created EXCEPT !.viewCenter = created.mapCenter,
                            !.viewZoom = ZoomOrDefault(created.mapZoom)]
       ELSE created

\* if (urlParams) { setMapCenter(url); setMapZoom(url.zoom) } else
\* setMapCenter(centre): the same in the three branches of the effect
CenterFromURLOrElse(m, centre, usesPosition) ==
  LET urlParams == readURLParams(m.mountUrl)
  IN IF urlParams.ok
       THEN [m EXCEPT !.hasCenter = TRUE,
                      !.mapCenter = <<urlParams.lat, urlParams.lng>>,
                      !.mapZoom = urlParams.zoom]
       ELSE [m EXCEPT !.hasCenter = TRUE, !.mapCenter = centre]

\* the success callback of getCurrentPosition
GeoSucceeded(m, position) ==
  LET located == [m EXCEPT !.userLocation = position, !.showLocation = TRUE,
                           !.gps = TRUE, !.geoPending = FALSE]
  IN Rendered([CenterFromURLOrElse(located, position, TRUE) EXCEPT !.isLoading = FALSE])

\* the error callback of getCurrentPosition, and the branch for a browser
\* without navigator.geolocation
GeoFailed(m) ==
  LET failed == [m EXCEPT !.locationError = TRUE, !.geoPending = FALSE]
  IN Rendered([CenterFromURLOrElse(failed, DefaultLocation, FALSE) EXCEPT !.isLoading = FALSE])

\* MapComponent mounts: its state, and the location effect up to the call of
\* getCurrentPosition
MapMounted(url, geoSupported) ==
  LET m == [MapUnmounted EXCEPT !.mounted = TRUE, !.mountUrl = url,
                                !.geoPending = geoSupported]
  IN IF geoSupported THEN m ELSE GeoFailed(m)

\* the view App renders: the map is mounted when the view becomes "map" and
\* unmounted when it becomes "list"
ShowView(a, view) ==
  IF view = "map"
    THEN IF a.map.mounted THEN a.map ELSE MapMounted(a.url, a.geo)
    ELSE MapUnmounted

\* mutant of SetViewParam: the other parameters are dropped
SetViewParam_DropsOthers(url, view) == [NoURL EXCEPT !.view = view]

\* url.searchParams.set("view", view)
SetViewParam(url, view) == [url EXCEPT !.view = view]

\* App's mount effect: the view parameter, when it is "map" or "list"
InitialView(url) == IF url.view \in {"map", "list"} THEN url.view ELSE "list"

InitialURLs ==
  { NoURL,
    [NoURL EXCEPT !.view = "map"],
    [NoURL EXCEPT !.view = "grid", !.lat = NumParam(58123456)],
    [view |-> "map", lat |-> NumParam(58123456), lng |-> NumParam(25123456),
     zoom |-> NumParam(12)],
    [view |-> "map", lat |-> NumParam(58123456), lng |-> NumParam(25123456),
     zoom |-> NumParam(0)],
    [view |-> "map", lat |-> NumParam(58123456), lng |-> NumParam(25123456),
     zoom |-> TextParam],
    [view |-> "list", lat |-> NumParam(58123456), lng |-> NumParam(25123456),
     zoom |-> NumParam(12)] }

GpsPositions == {<<590000001, 240000004>>}
ClickPositions == {<<585953127, 250136004>>, <<0, 250136004>>}
MovePositions == {<<581000003, 251000006>>}
MoveZooms == {16}

AppFrame == UNCHANGED <<lv, thumb, mig, progressFile, auth, ctx, modal, cap>>

NoBackend == UNCHANGED <<photos, bucket, nextId, clock, svc>>

\* App's mount effect
AppStart ==
  /\ app.pc = "init"
  /\ LET view == InitialView(app.url)
     IN app' = [app EXCEPT !.pc = "running", !.currentView = view,
                           !.map = ShowView(app, view),
                           !.handler = [name |-> "mount", view |-> view]]
  /\ NoBackend
  /\ AppFrame

\* handleViewChange(view), called by the Header's buttons
HandleViewChange(view) ==
  /\ app.pc = "running"
  /\ LET a == [app EXCEPT !.currentView = view, !.url = SetViewParam(@, view)]
     IN app' = [a EXCEPT !.map = ShowView(a, view), !.jump.active = FALSE,
                         !.handler = [name |-> "handleViewChange", view |-> view]]
  /\ NoBackend
  /\ AppFrame

\* handleJumpToMap(photo): onViewChange("map"), then view, lat, lng and zoom
\* are written to the URL; the map mounts in the render after the handler
JumpToMap(id) ==
  /\ app.pc = "running"
  /\ app.currentView = "list"
  /\ id \in DOMAIN photos
  /\ LET url == [view |-> "map",
                 lat |-> NumParam(toFixed6(photos[id].lat)),
                 lng |-> NumParam(toFixed6(photos[id].lng)),
                 zoom |-> NumParam(JumpZoom)]
         a == [app EXCEPT !.currentView = "map", !.url = url]
     IN app' = [a EXCEPT !.map = ShowView(a, "map"),
                         !.handler = [name |-> "handleJumpToMap", view |-> "map"],
                         !.jump = [active |-> TRUE, lat |-> photos[id].lat,
                                   lng |-> photos[id].lng]]
  /\ NoBackend
  /\ AppFrame

\* getCurrentPosition answers with a position
GeoSuccess ==
  /\ app.map.mounted /\ app.map.geoPending
  /\ \E position \in GpsPositions :
       app' = [app EXCEPT !.map = GeoSucceeded(@, position),
                          !.handler = [name |-> "position", view |-> "map"]]
  /\ NoBackend
  /\ AppFrame

\* getCurrentPosition answers with an error (denied, unavailable, timeout)
GeoError ==
  /\ app.map.mounted /\ app.map.geoPending
  /\ app' = [app EXCEPT !.map = GeoFailed(@),
                         !.handler = [name |-> "positionError", view |-> "map"]]
  /\ NoBackend
  /\ AppFrame

\* handleMapMove: the user has moved or zoomed the map; updateURL,
\* setMapCenter, setMapZoom
MapMove ==
  /\ app.map.hasView
  /\ \E centre \in MovePositions, zoom \in MoveZooms :
       LET m == [app.map EXCEPT !.hasCenter = TRUE, !.mapCenter = centre,
                                !.mapZoom = zoom, !.viewCenter = centre,
                                !.viewZoom = zoom, !.moved = TRUE]
       IN app' = [app EXCEPT
            !.url = [@ EXCEPT !.lat = NumParam(toFixed6(centre[1])),
                              !.lng = NumParam(toFixed6(centre[2])),
                              !.zoom = NumParam(zoom)],
            !.map = Rendered(m),
            !.handler = [name |-> "handleMapMove", view |-> "map"],
            !.jump.active = FALSE]
  /\ NoBackend
  /\ AppFrame

\* handleMapClick: admins get the click stored and the file dialog opened
MapClick ==
  /\ app.map.hasView
  /\ \E position \in ClickPositions :
       IF ~isAdmin(app.user)
         THEN app' = [app EXCEPT !.toast = "Admin permission required to upload photos",
                                 !.handler = [name |-> "handleMapClick", view |-> "map"]]
         ELSE app' = [app EXCEPT !.map.hasClick = TRUE, !.map.click = position,
                                 !.map.dialog = TRUE,
                                 !.handler = [name |-> "handleMapClick", view |-> "map"]]
  /\ NoBackend
  /\ AppFrame

\* the click handler of the location marker
LocationMarkerClick ==
  /\ app.map.hasView
  /\ app.map.showLocation
  /\ IF ~isAdmin(app.user)
       THEN app' = [app EXCEPT !.toast = "Admin permission required to upload photos",
                               !.handler = [name |-> "markerClick", view |-> "map"]]
       ELSE app' = [app EXCEPT !.map.hasClick = TRUE,
                               !.map.click = app.map.userLocation,
                               !.map.dialog = TRUE,
                               !.handler = [name |-> "markerClick", view |-> "map"]]
  /\ NoBackend
  /\ AppFrame

\* clickCoordinates?.lat || userLocation[0]
CoordinateOr(hasClick, value, fallback) ==
  IF hasClick /\ value # 0 THEN value ELSE fallback

\* handlePhotoCapture with a chosen file: the coordinates, the compression,
\* savePhotoToDatabase, and on success updatePhotoDetails with the name
\* "Target <id>"
PhotoCapture ==
  /\ app.map.hasView
  /\ app.map.dialog
  /\ nextId <= MaxRows
  /\ clock <= MaxRows + 1
  /\ \E compressOut \in {"ok", "throw"} :
     \E upOut \in OutcomesIf(compressOut = "ok" /\ requireAdmin(app.user)) :
     \E insOut \in OutcomesIf(compressOut = "ok" /\ requireAdmin(app.user)
                                /\ upOut = "ok") :
     \E rmOut \in OutcomesIf(insOut = "error") :
     \E detOut \in OutcomesIf(compressOut = "ok" /\ requireAdmin(app.user)
                                /\ upOut = "ok" /\ insOut = "ok") :
       LET m == app.map
           photoData ==
             [lat |-> CoordinateOr(m.hasClick, m.click[1], m.userLocation[1]),
              lng |-> CoordinateOr(m.hasClick, m.click[2], m.userLocation[2]),
              imageData |-> "o1", timestamp |-> clock, type |-> "target",
              name |-> NULL, description |-> NULL]
           r == savePhotoToDatabase(photoData, app.user, upOut, insOut, rmOut,
                                    photos, bucket, nextId, clock)
           d == updatePhotoDetails(nextId, "Target " \o ToString(nextId), NULL,
                                   app.user, detOut, r.photos)
       IN IF compressOut # "ok"
            THEN /\ app' = [app EXCEPT !.toast = "Error compressing image",
                                       !.map.dialog = FALSE,
                                       !.handler = [name |-> "handlePhotoCapture", view |-> "map"]]
                 /\ NoBackend
          ELSE IF ~r.ret.success
            THEN /\ app' = [app EXCEPT !.toast = "Failed to save photo",
                                       !.map.dialog = FALSE,
                                       !.handler = [name |-> "handlePhotoCapture", view |-> "map"]]
                 /\ photos' = r.photos
                 /\ bucket' = r.bucket
                 /\ nextId' = r.nextId
                 /\ clock' = clock + 1
                 /\ svc' = SvcRecord("savePhotoToDatabase", app.user, nextId, r)
          ELSE   /\ app' = [app EXCEPT !.toast = "Photo saved successfully!",
                                       !.map.dialog = FALSE,
                                       !.handler = [name |-> "handlePhotoCapture", view |-> "map"]]
                 /\ photos' = d.photos
                 /\ bucket' = r.bucket
                 /\ nextId' = r.nextId
                 /\ clock' = clock + 1
                 /\ svc' = SvcRecord("updatePhotoDetails", app.user, nextId, d)
  /\ AppFrame

InitApp ==
  /\ photos \in { t \in Tables(MaxRows) : \A i \in DOMAIN t : t[i].thumbnail_data # NULL }
  /\ bucket = {}
  /\ nextId = Cardinality(DOMAIN photos) + 1
  /\ clock = Cardinality(DOMAIN photos) + 1
  /\ svc = SvcIdle
  /\ auth = AuthIdle
  /\ ctx = CtxIdle
  /\ modal = ModalIdle
  /\ cap = CapIdle
  /\ lv = LvIdle
  /\ thumb = ThumbIdle
  /\ mig = MigIdle
  /\ progressFile = NoFile
  /\ \E url \in InitialURLs, geo \in BOOLEAN, user \in Users :
       app = [AppIdle EXCEPT !.url = url, !.geo = geo, !.user = user]

NextApp ==
  \/ AppStart
  \/ \E view \in {"map", "list"} : HandleViewChange(view)
  \/ \E id \in 1..MaxRows : JumpToMap(id)
  \/ GeoSuccess
  \/ GeoError
  \/ MapMove
  \/ MapClick
  \/ LocationMarkerClick
  \/ PhotoCapture

SpecApp == InitApp /\ [][NextApp]_vars

\* the whole number of 1e-6 degrees nearest to x, the larger one of two
Nearest6(x) ==
  CHOOSE n \in ((x \div 10) - 1)..((x \div 10) + 1) :
    /\ 10 * n - x <= 5
    /\ x - 10 * n < 5

\* C13: after Jump to Map on photo p the view is the map, the URL has
\* view=map, lat and lng of p rounded to 6 decimals and zoom=18, and the map
\* that mounts is centred there at zoom 18 once the geolocation outcome
\* (position, error, unsupported) is known.
C13_JumpToMapCentresOnPhoto ==
  app.jump.active =>
    LET lat6 == Nearest6(app.jump.lat)
        lng6 == Nearest6(app.jump.lng)
    IN /\ app.currentView = "map"
       /\ app.url = [view |-> "map", lat |-> [kind |-> "num", n |-> lat6],
                     lng |-> [kind |-> "num", n |-> lng6],
                     zoom |-> [kind |-> "num", n |-> 18]]
       /\ app.map.mounted
       /\ app.map.mountUrl = app.url
       /\ ~app.map.geoPending =>
            /\ ~app.map.isLoading
            /\ app.map.hasView
            /\ app.map.viewCenter = <<10 * lat6, 10 * lng6>>
            /\ app.map.viewZoom = 18

\* C13 happens: the map shown after a jump, with the user's position known
C13_Witness ==
  /\ app.jump.active
  /\ app.map.hasView
  /\ app.map.gps

Parseable(url) ==
  url.lat.kind = "num" /\ url.lng.kind = "num" /\ url.zoom.kind = "num"

\* C14 (as claimed): when the map has mounted and the geolocation outcome is
\* known, the loading state has ended and the map shows the URL's centre and
\* zoom when the URL has parseable lat, lng and zoom, otherwise the GPS
\* position if there is one, otherwise the default location; while the
\* outcome is not known the loading state lasts.
C14_CentrePrecedence ==
  LET m == app.map
  IN /\ (m.mounted /\ m.geoPending) => m.isLoading
     /\ (m.mounted /\ ~m.geoPending /\ ~m.moved) =>
          /\ ~m.isLoading
          /\ m.hasView
          /\ IF Parseable(m.mountUrl)
               THEN /\ m.viewCenter = <<10 * m.mountUrl.lat.n, 10 * m.mountUrl.lng.n>>
                    /\ m.viewZoom = m.mountUrl.zoom.n
             ELSE IF m.gps
               THEN m.viewCenter = m.userLocation /\ m.userLocation \in GpsPositions
             ELSE m.viewCenter = <<585953000, 250136000>>

\* C14: the precedence at work, URL values shown although a position came
C14_URLBeforePosition ==
  /\ app.map.hasView
  /\ app.map.gps
  /\ ~app.map.moved
  /\ Parseable(app.map.mountUrl)
  /\ app.map.viewZoom = 12
  /\ app.map.viewCenter = <<581234560, 251234560>>

\* C15 (as claimed): a photo captured after a click on the map is saved with
\* the latitude and longitude of the click; the user's position is used
\* only when no click was stored.
C15_SavedAtClickedCoordinates ==
  [][\A i \in DOMAIN photos' \ DOMAIN photos :
       IF app.map.hasClick
         THEN /\ photos'[i].lat = app.map.click[1]
              /\ photos'[i].lng = app.map.click[2]
         ELSE /\ photos'[i].lat = app.map.userLocation[1]
              /\ photos'[i].lng = app.map.userLocation[2]]_vars

\* C15: the case that does hold, a click away from latitude 0
C15_SavedAtClick ==
  \E i \in DOMAIN photos :
    /\ photos[i].lat = 585953127
    /\ photos[i].lng = 250136004
    /\ app.map.click = <<585953127, 250136004>>

\* C19: before App's mount effect the view is "list"; the effect makes it the
\* URL's view parameter when that is "map" or "list" and leaves it "list"
\* otherwise; after handleViewChange(v) the view and the URL's view
\* parameter are v, and the call leaves the other URL parameters as they
\* were.
C19_ViewFollowsURLAndHandler ==
  /\ [](/\ app.pc = "init" => app.currentView = "list"
        /\ app.handler.name = "mount" =>
             /\ app.currentView = (IF app.url.view = "map" THEN "map" ELSE "list")
        /\ app.handler.name = "handleViewChange" =>
             /\ app.currentView = app.handler.view
             /\ app.url.view = app.handler.view)
  /\ [][(app'.handler.name = "handleViewChange" /\ app' # app) =>
          /\ app'.url.lat = app.url.lat
          /\ app'.url.lng = app.url.lng
          /\ app'.url.zoom = app.url.zoom]_vars

\* C19 happens: the view was changed to the map with coordinates in the URL
C19_Witness ==
  /\ app.handler = [name |-> "handleViewChange", view |-> "map"]
  /\ app.currentView = "map"
  /\ app.url.view = "map"
  /\ app.url.lat.kind = "num"

\* ------------------------------------------------- the rows of the list view
\* ListView over tables whose rows differ in type, latitude and capture time,
\* and over tables as large as the page that the load effect asks for.

MaxSortRows == 3

SortTypes == {NULL, "coins", "target"}
SortLats == {58, 59}
SortTimestamps == {1, 2}

SortKinds == [type : SortTypes, lat : SortLats, timestamp : SortTimestamps]

SortRow(id, kind) ==
  [StoredRow(id, StoredThumbnail(id), NULL) EXCEPT
     !.type = kind.type, !.lat = kind.lat, !.timestamp = kind.timestamp]

\* the tables of at most maxRows rows, ids 1..k, each row of any kind
SortTables(maxRows) ==
  UNION { { [i \in 1..k |-> SortRow(i, f[i])] : f \in [1..k -> SortKinds] } :
          k \in 0..maxRows }

\* tables of exactly the page size of the load effect, and of one row more
BigTables ==
  { [i \in 1..n |-> StoredRow(i, StoredThumbnail(i), NULL)] : n \in {ListLimit, ListLimit + 1} }

SortChoices == {"timestamp", "type", "location"}
FilterChoices == {"all", formatTypeName(NULL)} \cup (SortTypes \ {NULL})

InitRows ==
  /\ photos \in SortTables(MaxSortRows) \cup BigTables
  /\ bucket = {}
  /\ nextId = Cardinality(DOMAIN photos) + 1
  /\ clock = Cardinality(DOMAIN photos) + 1
  /\ svc = SvcIdle
  /\ auth = AuthIdle
  /\ ctx = CtxIdle
  /\ modal = ModalIdle
  /\ cap = CapIdle
  /\ lv = LvIdle
  /\ thumb = ThumbIdle
  /\ mig = MigIdle
  /\ progressFile = NoFile
  /\ app = AppIdle

NextRows ==
  \/ LvLoad
  \/ \E sortBy \in SortChoices : SetSortBy(sortBy)
  \/ \E filterBy \in FilterChoices : SetFilterBy(filterBy)

SpecRows == InitRows /\ [][NextRows]_vars

ShownIds == {lv.shown[k].id : k \in 1..Len(lv.shown)}

\* C16 (as claimed): once the initial load has succeeded the list view, with
\* no filter chosen, shows every row of the table, however many rows it has.
C16_ListShowsEveryRow ==
  (lv.pc = "ready" /\ lv.toast = NULL /\ ~lv.crashed /\ lv.filterBy = "all")
    => ShownIds = DOMAIN photos

\* C16: the case that does hold, a table of as many rows as one page
C16_FullPageShown ==
  /\ lv.pc = "ready" /\ lv.toast = NULL
  /\ Cardinality(DOMAIN photos) = ListLimit
  /\ ShownIds = DOMAIN photos

\* C20 (as claimed): after a successful load the rows shown are the loaded
\* photos whose type equals the filter (all of them for "all"), each once,
\* in the order of the chosen sort: capture time newest first, type
\* ascending, or latitude ascending; also when a loaded photo has a null type.
C20_RowsFilteredAndSorted ==
  (lv.pc = "ready" /\ lv.toast = NULL) =>
    LET want == {k \in 1..Len(lv.photos) :
                   lv.filterBy = "all" \/ lv.photos[k].type = lv.filterBy}
    IN /\ ~lv.crashed
       /\ Len(lv.shown) = Cardinality(want)
       /\ ShownIds = {lv.photos[k].id : k \in want}
       /\ \A i \in 1..Len(lv.shown) : \A j \in (i + 1)..Len(lv.shown) :
            /\ lv.sortBy = "timestamp" => lv.shown[i].timestamp >= lv.shown[j].timestamp
            /\ lv.sortBy = "location" => lv.shown[i].lat <= lv.shown[j].lat
            /\ (lv.sortBy = "type" /\ lv.shown[i].type # NULL /\ lv.shown[j].type # NULL)
                 => TypeRank(lv.shown[i].type) <= TypeRank(lv.shown[j].type)

\* C20: the case that does hold, rows of two types sorted by type
C20_SortedByType ==
  /\ lv.pc = "ready" /\ ~lv.crashed
  /\ lv.sortBy = "type" /\ lv.filterBy = "all"
  /\ Len(lv.shown) = MaxSortRows
  /\ lv.shown[1].type = "coins"
  /\ lv.shown[Len(lv.shown)].type = "target"
  /\ lv.shown[1].id > lv.shown[Len(lv.shown)].id


\* ------------------------------------------------- the limit of regenerate

\* the photos that the run has handled: thumbnail written, or failed
Handled(t) == t.successful + t.failed

\* C17 (as claimed): with --all --limit=N regenerate-thumbnails writes the
\* thumbnail of at most N photos, and a page is fetched only while fewer than
\* N photos have been handled, also when some photos fail.
C17_LimitBoundsTheRun ==
  (thumb.script = "regenerate" /\ thumb.mode = "all" /\ thumb.limit # 0) =>
    /\ thumb.successful <= thumb.limit
    /\ thumb.pc = "process" => Handled(thumb) - (thumb.i - 1) < thumb.limit

\* C17: the case that does hold, the run ends at the limit after an update
\* that failed
C17_StoppedAtLimit ==
  /\ thumb.script = "regenerate" /\ thumb.mode = "all" /\ ~thumb.dryRun
  /\ thumb.limit # 0
  /\ thumb.pc = "done"
  /\ thumb.failed > 0
  /\ Handled(thumb) = thumb.limit
  /\ Cardinality(DOMAIN photos) > thumb.limit


\* ------------------------------------------------- the resume of a migration

\* C18 (as claimed): a migration run started without --resume begins at the
\* first photo (lastProcessedId 0) with zeroed counters, also when an
\* earlier run has left a progress file; only --resume continues from it.
C18_FreshStartWithoutResume ==
  (mig.runs > 0 /\ ~mig.resume) =>
    /\ mig.startId = 0
    /\ (mig.pc = "fetch" /\ mig.batch = <<>>) =>
         /\ mig.lastProcessedId = 0
         /\ mig.processed = 0 /\ mig.successful = 0 /\ mig.failed = 0

\* C18: the case that does hold, a run with --resume continues after the
\* last photo of the progress file
C18_ResumedFromProgress ==
  /\ mig.runs = 2 /\ mig.resume
  /\ mig.pc = "fetch" /\ mig.batch = <<>>
  /\ progressFile.exists
  /\ mig.startId = progressFile.lastProcessedId
  /\ mig.startId > 0

\* ------------------------------------- the admin claim and the row-level rules

\* the users of auth.users: user_metadata.admin (raw_user_meta_data) is what
\* the client reads, app_metadata.admin (raw_app_meta_data) a separate claim
PolicyUsers ==
  { NullUser @@ [app_admin |-> "undefined"] } \cup
  { [isNull |-> FALSE, id |-> "u1", admin |-> a, app_admin |-> b] :
      a \in {"undefined", "true"}, b \in {"undefined", "true"} }

\* auth.role() of the request's token
AuthRole(user) == IF user.isNull THEN "anon" ELSE "authenticated"

\* "Allow read access for authenticated users"
SelectPolicy(user) == AuthRole(user) = "authenticated"

\* "Allow insert for admin users": WITH CHECK
InsertPolicy(user) == AuthRole(user) = "authenticated" /\ user.app_admin = "true"

\* "Allow update for admin users": USING
UpdatePolicy(user) == AuthRole(user) = "authenticated" /\ user.app_admin = "true"

\* "Allow delete for admin users": USING
DeletePolicy(user) == AuthRole(user) = "authenticated" /\ user.app_admin = "true"

\* the storage.objects policies of the original-images bucket
StoragePolicy(user) == AuthRole(user) = "authenticated"

\* the set-admin script: raw_user_meta_data || '{"admin": true}'
SetAdmin(user) == [user EXCEPT !.admin = "true"]

\* what the backend answers a request of this user: an INSERT or a storage
\* request the policy refuses is an error, an UPDATE or DELETE whose USING
\* clause hides the row changes nothing and reports no error
Checked(admitted) == IF admitted THEN "ok" ELSE "error"
Using(admitted) == IF admitted THEN "ok" ELSE "filtered"

PolicyPath(i) == UniqueFilename("u0", i)

\* tables whose rows were stored with or without an original in the bucket
PolicyTables ==
  UNION { { [i \in 1..k |-> StoredRow(i, StoredThumbnail(i),
                                      IF i \in T THEN PolicyPath(i) ELSE NULL)] :
            T \in SUBSET (1..k) } : k \in 1..MaxRows }

\* signInWithPassword / signOut: an account as the sign-up left it, with or
\* without the app_metadata claim
SignIn ==
  /\ \E user \in { u \in PolicyUsers : u.admin = "undefined" } :
       auth' = [auth EXCEPT !.user = user]
  /\ UNCHANGED <<photos, bucket, nextId, clock, svc, lv, thumb, mig,
                 progressFile, app, ctx, modal, cap>>

\* the set-admin script is run for the signed-in user, the token is renewed
GrantAdmin ==
  /\ ~auth.user.isNull
  /\ auth.user.admin # "true"
  /\ auth' = [auth EXCEPT !.user = SetAdmin(auth.user)]
  /\ UNCHANGED <<photos, bucket, nextId, clock, svc, lv, thumb, mig,
                 progressFile, app, ctx, modal, cap>>

PolicyFrame == UNCHANGED <<lv, thumb, mig, progressFile, app, auth, ctx, modal, cap>>

PolicySave ==
  /\ nextId <= MaxRows + 1
  /\ clock <= MaxRows + 2
  /\ LET user == auth.user
         photoData == [lat |-> 58, lng |-> 25, imageData |-> "o1",
                       timestamp |-> clock, type |-> "target", name |-> "",
                       description |-> ""]
         r == savePhotoToDatabase(photoData, user, Checked(StoragePolicy(user)),
                                  Checked(InsertPolicy(user)),
                                  Checked(StoragePolicy(user)),
                                  photos, bucket, nextId, clock)
     IN /\ photos' = r.photos
        /\ bucket' = r.bucket
        /\ nextId' = r.nextId
        /\ clock' = clock + 1
        /\ svc' = SvcRecord("savePhotoToDatabase", user, nextId, r)
  /\ PolicyFrame

PolicyUpdateType ==
  /\ \E id \in DOMAIN photos, newType \in NewTypes :
       LET user == auth.user
           r == updatePhotoType(id, newType, user, Using(UpdatePolicy(user)), photos)
       IN /\ photos' = r.photos
          /\ svc' = SvcRecord("updatePhotoType", user, id, r)
  /\ UNCHANGED <<bucket, nextId, clock>>
  /\ PolicyFrame

PolicyDelete ==
  /\ \E id \in DOMAIN photos :
       LET user == auth.user
           r == deletePhotoFromDatabase(id, user, Checked(SelectPolicy(user)),
                                        Using(DeletePolicy(user)),
                                        Checked(StoragePolicy(user)),
                                        photos, bucket)
       IN /\ photos' = r.photos
          /\ bucket' = r.bucket
          /\ svc' = SvcRecord("deletePhotoFromDatabase", user, id, r)
  /\ UNCHANGED <<nextId, clock>>
  /\ PolicyFrame

InitPolicy ==
  /\ photos \in PolicyTables
  /\ bucket = StoredPaths(photos)
  /\ nextId = Cardinality(DOMAIN photos) + 1
  /\ clock = Cardinality(DOMAIN photos) + 1
  /\ svc = SvcIdle
  /\ auth = AuthIdle
  /\ ctx = CtxIdle
  /\ modal = ModalIdle
  /\ cap = CapIdle
  /\ lv = LvIdle
  /\ thumb = ThumbIdle
  /\ mig = MigIdle
  /\ progressFile = NoFile
  /\ app = AppIdle

NextPolicy ==
  \/ SignIn
  \/ GrantAdmin
  \/ PolicySave
  \/ PolicyUpdateType
  \/ PolicyDelete

SpecPolicy == InitPolicy /\ [][NextPolicy]_vars

\* C21: a deletePhotoFromDatabase call whose row removal did not remove the
\* row returns success=false and leaves the bucket as it was, the storage
\* removal is requested only after the delete request, and no row that is
\* still in the table after the call has lost the file its storage_path names
C21_RowRemovedBeforeFile ==
  [][svc'.op = "deletePhotoFromDatabase" /\ svc' # svc =>
       /\ (svc'.photoId \in DOMAIN photos /\ svc'.photoId \in DOMAIN photos'
             => svc'.ret.success = FALSE /\ bucket' = bucket)
       /\ \A k \in 1..Len(svc'.calls) :
            svc'.calls[k].call = "remove" =>
              \E j \in 1..(k - 1) : svc'.calls[j].call = "delete"
       /\ \A i \in DOMAIN photos' :
            photos'[i].storage_path \in bucket => photos'[i].storage_path \in bucket']_vars

\* a delete by a user the client takes for an admin: the row is still
\* there, its file is gone and the call reported success
C21_RowPointsToDeletedFile ==
  /\ svc.op = "deletePhotoFromDatabase"
  /\ svc.ret.success
  /\ svc.photoId \in DOMAIN photos
  /\ photos[svc.photoId].storage_path # NULL
  /\ photos[svc.photoId].storage_path \notin bucket

\* C28: the client's admin check and the insert, update and delete policies
\* admit the same signed-in users; no insert the client allowed is refused
\* by the backend, and no original is uploaded for a user whose insert the
\* policy refuses
C28_ClientCheckAgreesWithPolicies ==
  /\ checkAdminPermission(auth.user) <=>
       (InsertPolicy(auth.user) /\ UpdatePolicy(auth.user) /\ DeletePolicy(auth.user))
  /\ isAdmin(auth.user) <=> InsertPolicy(auth.user)
  /\ svc.op = "savePhotoToDatabase" =>
       \A k \in 1..Len(svc.calls) :
         /\ svc.calls[k].call = "insert" => svc.calls[k].out = "ok"
         /\ svc.calls[k].call = "upload" => InsertPolicy(svc.user)

\* a user made admin by the set-admin script saved a photo: the original was
\* uploaded and the insert was refused
C28_UploadedThenRefused ==
  /\ svc.op = "savePhotoToDatabase"
  /\ checkAdminPermission(svc.user)
  /\ ~InsertPolicy(svc.user)
  /\ \E k \in 1..Len(svc.calls) : svc.calls[k].call = "upload" /\ svc.calls[k].out = "ok"
  /\ \E k \in 1..Len(svc.calls) : svc.calls[k].call = "insert" /\ svc.calls[k].out = "error"
  /\ svc.ret.success = FALSE

\* --------------------------------------- the update of a thumbnail, the counters

\* C26: in the thumbnail scripts an update of a photo's thumbnail that fails
\* with a timeout before the third attempt is followed by a further attempt:
\* the photo is counted as failed only after MAX_RETRIES attempts
C26_TimedOutUpdateRetried ==
  \A k \in 1..Len(thumb.updLog) :
    (thumb.updLog[k] = "timeout" /\ k < MAX_RETRIES) => Len(thumb.updLog) > k

\* one update request answered with a timeout, and the photo is counted failed
C26_FailedAfterOneTimeout ==
  /\ thumb.updLog = <<"timeout">>
  /\ thumb.failed = 1
  /\ thumb.processed = 1
  /\ thumb.successful = 0

\* C27: in the run summary of the thumbnail scripts processed equals
\* successful + failed after every processed photo
C27_ProcessedIsSuccessfulPlusFailed ==
  thumb.processed = thumb.successful + thumb.failed

\* a finished run in which createThumbnail failed for a photo: the failure is
\* counted, the photo is not
C27_FailureNotProcessed ==
  /\ thumb.pc = "done"
  /\ thumb.successful > 0
  /\ thumb.failed > 0
  /\ thumb.processed < thumb.successful + thumb.failed

\* ------------------------------------------------------------ PhotosProvider

PageSize == 50        \* loadPhotos(50, ...)
MaxExtraRows == 2     \* rows of the table beyond the first page
MaxCalls == 3         \* loadMorePhotos / refreshPhotos calls after the mount

CtxTables ==
  { [i \in 1..n |-> StoredRow(i, StoredThumbnail(i), NULL)] :
      n \in PageSize..(PageSize + MaxExtraRows) }

\* the entries of the photos list, each named by its id
Ids(data) == [k \in 1..Len(data) |-> data[k].id]

\* the values a render hands to loadMorePhotos
Seen(c) ==
  [loading |-> c.loading, hasMore |-> c.hasMore, currentOffset |-> c.currentOffset]

\* loadPhotos up to its await: setLoading(true), setError(null), the query is sent
LoadPhotosStart(c, limit, offset) ==
  [c EXCEPT !.loading = TRUE, !.error = NULL, !.issued = @ + 1,
            !.inflight = @ \cup {[n |-> c.issued + 1, limit |-> limit,
                                  offset |-> offset]}]

\* loadPhotos after its await: replace or append, setHasMore,
\* setCurrentOffset, or setError; finally setLoading(false)
LoadPhotosEnd(c, q, r) ==
  LET c1 == [c EXCEPT !.inflight = @ \ {q}, !.loading = FALSE]
  IN IF r.ret.success
       THEN LET ids == Ids(r.ret.data)
            IN [c1 EXCEPT !.photos = IF q.offset = 0 THEN ids ELSE @ \o ids,
                          !.hasMore = (Len(ids) = q.limit),
                          !.currentOffset = q.offset + Len(ids)]
       ELSE [c1 EXCEPT !.error = r.ret.error]

CtxFrame == UNCHANGED <<photos, bucket, nextId, clock, svc, lv, thumb, mig,
                        progressFile, app, auth, modal, cap>>

\* useEffect(() => { if (user) loadPhotos(50, 0, true) }, [user])
CtxMount ==
  /\ ~ctx.mounted
  /\ ctx' = LoadPhotosStart([ctx EXCEPT !.mounted = TRUE], PageSize, 0)
  /\ CtxFrame

\* loadMorePhotos of the last render: if (!loading && hasMore)
CtxLoadMore ==
  /\ ctx.mounted
  /\ ctx.issued <= MaxCalls
  /\ ~ctx.seen.loading /\ ctx.seen.hasMore
  /\ ctx' = LoadPhotosStart(ctx, PageSize, ctx.seen.currentOffset)
  /\ CtxFrame

\* refreshPhotos: setCurrentOffset(0), setHasMore(true), loadPhotos(50, 0, true)
CtxRefresh ==
  /\ ctx.mounted
  /\ ctx.issued <= MaxCalls
  /\ ctx' = LoadPhotosStart([ctx EXCEPT !.currentOffset = 0, !.hasMore = TRUE],
                            PageSize, 0)
  /\ CtxFrame

\* React renders the provider again: new functions close over the new state
CtxRender ==
  /\ ctx.seen # Seen(ctx)
  /\ ctx' = [ctx EXCEPT !.seen = Seen(ctx)]
  /\ CtxFrame

\* the query of a loadPhotos call answers
CtxAnswerOf(outs) ==
  /\ \E q \in ctx.inflight, out \in outs :
       ctx' = LoadPhotosEnd(ctx, q,
                loadPhotosWithThumbnails(q.limit, q.offset, out, photos))
  /\ CtxFrame

CtxAnswer == CtxAnswerOf(Outcomes)

NextCtx ==
  \/ CtxMount
  \/ CtxLoadMore
  \/ CtxRefresh
  \/ CtxRender
  \/ CtxAnswer

InitCtx ==
  /\ photos \in CtxTables
  /\ bucket = {}
  /\ nextId = Cardinality(DOMAIN photos) + 1
  /\ clock = Cardinality(DOMAIN photos) + 1
  /\ svc = SvcIdle
  /\ auth = AuthIdle
  /\ ctx = CtxIdle
  /\ modal = ModalIdle
  /\ cap = CapIdle
  /\ lv = LvIdle
  /\ thumb = ThumbIdle
  /\ mig = MigIdle
  /\ progressFile = NoFile
  /\ app = AppIdle

SpecCtx == InitCtx /\ [][NextCtx]_vars

\* C23: after any interleaving of loadMorePhotos and refreshPhotos calls the
\* photos list of PhotosProvider holds no two entries with the same id
C23_NoDuplicateIds ==
  \A i, j \in 1..Len(ctx.photos) : i # j => ctx.photos[i] # ctx.photos[j]

\* two loadMorePhotos calls of one render have both answered: the second
\* page is in the list twice
C23_SamePageAppendedTwice ==
  /\ ctx.inflight = {}
  /\ ctx.issued = 3
  /\ ctx.currentOffset = Cardinality(DOMAIN photos)
  /\ Len(ctx.photos) > Cardinality(DOMAIN photos)

\* ------------------------------------- PhotosProvider: one call after another

\* nothing in flight and the last render has seen the state
Settled == ctx.inflight = {} /\ ctx.seen = Seen(ctx)

DeleteIds == {1, PageSize, PageSize + 1}

Remaining(list, id) == SelectSeq(list, LAMBDA x : x # id)

\* deletePhoto: deletePhotoFromDatabase, then the photo is filtered out of
\* the list; a failure is thrown to the caller
CtxDeletePhoto ==
  /\ ctx.mounted
  /\ \E id \in DeleteIds \cap DOMAIN photos :
       LET r == deletePhotoFromDatabase(id, AdminUser, "ok", "ok", "ok",
                                        photos, bucket)
       IN /\ photos' = r.photos
          /\ bucket' = r.bucket
          /\ ctx' = IF r.ret.success
                      THEN [ctx EXCEPT !.photos = Remaining(@, id)]
                      ELSE ctx
  /\ UNCHANGED <<nextId, clock, svc, lv, thumb, mig, progressFile, app, auth, modal, cap>>

SeqLoadMore == Settled /\ CtxLoadMore
SeqRefresh == Settled /\ CtxRefresh
SeqDeletePhoto == Settled /\ CtxDeletePhoto
SeqAnswer == CtxAnswerOf({"ok"})

NextCtxSeq ==
  \/ CtxMount
  \/ SeqLoadMore
  \/ SeqRefresh
  \/ SeqDeletePhoto
  \/ CtxRender
  \/ SeqAnswer

SpecCtxSeq == InitCtx /\ [][NextCtxSeq]_vars

\* the ids of the table as the page query orders them
TableOrder(P) == Reverse(OrderedAsc(P, DOMAIN P))

\* the number of table rows that precede the first row not in the list
RowsBeforeNextUnloaded(list, P) ==
  LET order == TableOrder(P)
      loaded == { list[k] : k \in 1..Len(list) }
      unloaded == { k \in 1..Len(order) : order[k] \notin loaded }
  IN IF unloaded = {} THEN Len(order)
     ELSE (CHOOSE k \in unloaded : \A m \in unloaded : k <= m) - 1

\* C24: after successful page loads and deletePhoto calls, made one after
\* another, currentOffset is the number of table rows before the next row
\* not yet loaded, and once hasMore is false the list holds every row of the
\* table exactly once
C24_EveryRowLoadedOnce ==
  (ctx.mounted /\ Settled) =>
    /\ ctx.currentOffset = RowsBeforeNextUnloaded(ctx.photos, photos)
    /\ ~ctx.hasMore => ctx.photos = TableOrder(photos)

\* a loaded photo was deleted and the rest was loaded: a row of the table is
\* missing from the list
C24_RowNeverLoaded ==
  /\ ctx.mounted /\ Settled
  /\ ~ctx.hasMore
  /\ \E i \in DOMAIN photos : \A k \in 1..Len(ctx.photos) : ctx.photos[k] # i

\* ---------------------------------------------------------------- PhotoModal

MaxOpens == 3         \* photos opened in the modal
MaxModalRows == 2     \* rows of the table the modal's parent shows

\* tables of at least two rows, each stored with or without an original
ModalTables ==
  UNION { { [i \in 1..k |-> StoredRow(i, StoredThumbnail(i),
                                      IF i \in T THEN PolicyPath(i) ELSE NULL)] :
            T \in SUBSET (1..k) } : k \in 2..MaxModalRows }

ModalFrame == UNCHANGED <<photos, bucket, nextId, clock, svc, lv, thumb, mig,
                          progressFile, app, auth, ctx, cap>>

\* a request of the image load effect, as the promise chain keeps it: the
\* photo id it closed over and whether it is the original or the fallback
ImageRequest(m, id, stage) == [n |-> m.issued + 1, id |-> id, stage |-> stage]

\* handlePhotoClick / handleViewPhoto, then the effect of the render that
\* follows: both image states are reset and getOriginalImageData is called
ModalOpen ==
  /\ ~modal.showModal
  /\ modal.opens < MaxOpens
  /\ \E id \in DOMAIN photos :
       modal' = [modal EXCEPT
                   !.showModal = TRUE, !.selectedPhoto = id,
                   !.originalImageData = NULL, !.isLoadingOriginal = TRUE,
                   !.inflight = @ \cup {ImageRequest(modal, id, "original")},
                   !.issued = @ + 1, !.opens = @ + 1]
  /\ ModalFrame

\* setShowModal(false): the component returns null and keeps its state
ModalClose ==
  /\ modal.showModal
  /\ modal' = [modal EXCEPT !.showModal = FALSE]
  /\ ModalFrame

\* getOriginalImageData(id) settles: .then / .catch, then .finally
ModalOriginalAnswer ==
  /\ \E q \in { r \in modal.inflight : r.stage = "original" } :
     \E out \in Outcomes :
     \E dlOut \in OutcomesIf(out = "ok" /\ photos[q.id].storage_path # NULL) :
       LET r == getOriginalImageData(q.id, out, dlOut, photos, bucket)
       IN modal' =
            IF r.ret.success
              THEN [modal EXCEPT !.inflight = @ \ {q},
                                 !.originalImageData = r.ret.data,
                                 !.isLoadingOriginal = FALSE]
              ELSE [modal EXCEPT
                      !.inflight = (@ \ {q}) \cup {ImageRequest(modal, q.id, "fallback")},
                      !.issued = @ + 1,
                      !.isLoadingOriginal = FALSE]
  /\ ModalFrame

\* the fallback getFullImageData(id) settles
ModalFallbackAnswer ==
  /\ \E q \in { r \in modal.inflight : r.stage = "fallback" } :
     \E out \in Outcomes :
       LET r == getFullImageData(q.id, out, photos)
       IN modal' =
            IF r.ret.success
              THEN [modal EXCEPT !.inflight = @ \ {q},
                                 !.originalImageData = r.ret.data]
              ELSE [modal EXCEPT !.inflight = @ \ {q}]
  /\ ModalFrame

\* what the <img> of the modal shows: originalImageData ||
\* selectedPhoto.image_data || selectedPhoto.imageData, or the spinner
ModalImage(m, P) ==
  IF ~m.showModal THEN NULL
  ELSE IF m.isLoadingOriginal THEN "spinner"
  ELSE IF m.originalImageData # NULL THEN m.originalImageData
  ELSE WithThumbnail(P[m.selectedPhoto]).imageData

\* the images that belong to a photo: its original, its compressed image
\* and its thumbnail
ImagesOf(id, P) ==
  {"original(" \o P[id].storage_path \o ")", P[id].image_data,
   P[id].thumbnail_data}

InitModal ==
  /\ photos \in ModalTables
  /\ bucket = StoredPaths(photos)
  /\ nextId = Cardinality(DOMAIN photos) + 1
  /\ clock = Cardinality(DOMAIN photos) + 1
  /\ svc = SvcIdle
  /\ auth = AuthIdle
  /\ ctx = CtxIdle
  /\ modal = ModalIdle
  /\ cap = CapIdle
  /\ lv = LvIdle
  /\ thumb = ThumbIdle
  /\ mig = MigIdle
  /\ progressFile = NoFile
  /\ app = AppIdle

NextModal ==
  \/ ModalOpen
  \/ ModalClose
  \/ ModalOriginalAnswer
  \/ ModalFallbackAnswer

SpecModal == InitModal /\ [][NextModal]_vars

\* C25: the image the photo modal shows belongs to the selected photo
C25_ImageOfSelectedPhoto ==
  ModalImage(modal, photos) \in
    {NULL, "spinner"} \cup
    (IF modal.selectedPhoto \in DOMAIN photos
       THEN ImagesOf(modal.selectedPhoto, photos) ELSE {})

\* photo 1 was opened, then photo 2; the answer for photo 1 came late and
\* the modal of photo 2 shows the original of photo 1
C25_LateAnswerShown ==
  /\ modal.showModal
  /\ modal.selectedPhoto = 2
  /\ modal.opens = 2
  /\ ~modal.isLoadingOriginal
  /\ modal.originalImageData = "original(" \o photos[1].storage_path \o ")"

\* ------------------------------------------- a photo capture on the map

MaxCaptures == 2      \* files chosen in the capture dialog

TempIds == 1..MaxCaptures

CapFrame == UNCHANGED <<svc, lv, thumb, mig, progressFile, app, auth, ctx, modal>>

\* a savePhotoToDatabase call of handlePhotoCapture, at one of its awaits
SaveAt(stage, user, img, now) ==
  [stage |-> stage, user |-> user, img |-> img, now |-> now, stalled |-> FALSE,
   path |-> NULL, success |-> FALSE, rowId |-> 0, toast |-> NULL]

Pending(stage) == { t \in DOMAIN cap.saves : cap.saves[t].stage = stage }

\* handlePhotoCapture with a chosen file, up to the first await of
\* savePhotoToDatabase: imageCompression, the FileReader, tempId = Date.now(),
\* the loading marker, requireAdmin and validateImageSize
CaptureFile ==
  /\ Cardinality(DOMAIN cap.saves) < MaxCaptures
  /\ clock \in TempIds
  /\ \E user \in Users, compressOut \in {"ok", "throw"} :
     \E readOut \in IF compressOut = "ok" THEN {"load", "error"} ELSE {"load"} :
     \E img \in IF requireAdmin(user) /\ compressOut = "ok" /\ readOut = "load"
                  THEN Originals ELSE {"o1"} :
       IF compressOut = "throw"
         THEN cap' = [cap EXCEPT !.toast = "Error compressing image"]
       ELSE IF readOut = "error"
         \* reader.onerror is not set: nothing follows
         THEN cap' = cap
       ELSE
         LET started == requireAdmin(user) /\ validateImageSize(img)
             save == SaveAt(IF started THEN "upload" ELSE "return", user, img, clock)
         IN cap' = [cap EXCEPT
                      !.loadingPhotos = @ \cup {clock},
                      !.saves = WithRow(@, clock, save)]
  /\ clock' = clock + 1
  /\ UNCHANGED <<photos, bucket, nextId>>
  /\ CapFrame

\* the upload of the original answers: compressImage starts, or the
\* exception is caught and the call returns success: false
SaveUploadAnswer ==
  /\ \E t \in Pending("upload"), out \in Outcomes :
       LET s == cap.saves[t]
           up == uploadOriginalImage(s.img, s.user.id, out, bucket, s.now)
       IN /\ bucket' = up.bucket
          /\ cap' = [cap EXCEPT !.saves[t] =
                       IF up.thrown THEN [s EXCEPT !.stage = "return"]
                       ELSE [s EXCEPT !.stage = "compress", !.path = up.path]]
  /\ UNCHANGED <<photos, nextId, clock>>
  /\ CapFrame

\* compressImage: new Image() with an onload handler only; the promise is
\* resolved when the image loads and is never settled when it does not
CompressImageSettles ==
  /\ \E t \in Pending("compress"), ev \in {"load", "error"} :
       /\ ~cap.saves[t].stalled
       /\ cap' = [cap EXCEPT !.saves[t] =
                    IF ev = "load" THEN [@ EXCEPT !.stage = "thumbnail"]
                    ELSE [@ EXCEPT !.stalled = TRUE]]
  /\ UNCHANGED <<photos, bucket, nextId, clock>>
  /\ CapFrame

\* createThumbnail: the same promise around the compressed image; when it
\* resolves the insert is sent
CreateThumbnailSettles ==
  /\ \E t \in Pending("thumbnail"), ev \in {"load", "error"} :
       /\ ~cap.saves[t].stalled
       /\ cap' = [cap EXCEPT !.saves[t] =
                    IF ev = "load" THEN [@ EXCEPT !.stage = "insert"]
                    ELSE [@ EXCEPT !.stalled = TRUE]]
  /\ UNCHANGED <<photos, bucket, nextId, clock>>
  /\ CapFrame

\* the insert answers: the row is returned, or the uploaded file is removed
\* and success: false is returned
SaveInsertAnswer ==
  /\ \E t \in Pending("insert"), insOut \in Outcomes :
     \E rmOut \in OutcomesIf(insOut = "error") :
       LET s == cap.saves[t]
           photoData == [lat |-> 58, lng |-> 25, imageData |-> s.img,
                         timestamp |-> s.now, type |-> "target", name |-> NULL,
                         description |-> NULL]
           compressedImage == compressImage(s.img)
           row == NewRow(nextId, photoData, compressedImage,
                         createThumbnail(compressedImage), s.path, s.now)
           cl == InsertErrorCleanup(s.path, rmOut, bucket)
       IN IF insOut = "ok"
            THEN /\ photos' = WithRow(photos, nextId, row)
                 /\ nextId' = nextId + 1
                 /\ bucket' = bucket
                 /\ cap' = [cap EXCEPT !.saves[t] =
                              [s EXCEPT !.stage = "return", !.success = TRUE,
                                        !.rowId = nextId]]
            ELSE /\ photos' = photos
                 /\ nextId' = nextId
                 /\ bucket' = IF insOut = "error" THEN cl.bucket ELSE bucket
                 /\ cap' = [cap EXCEPT !.saves[t] = [s EXCEPT !.stage = "return"]]
  /\ UNCHANGED clock
  /\ CapFrame

\* handlePhotoCapture after await savePhotoToDatabase: the loading marker is
\* removed; a failure is toasted, a success goes on to updatePhotoDetails
CaptureResume ==
  /\ \E t \in Pending("return") :
       LET s == cap.saves[t]
       IN cap' = IF s.success
                   THEN [cap EXCEPT !.loadingPhotos = @ \ {t},
                                    !.saves[t] = [s EXCEPT !.stage = "rename"]]
                   ELSE [cap EXCEPT !.loadingPhotos = @ \ {t},
                                    !.toast = "Failed to save photo",
                                    !.saves[t] = [s EXCEPT !.stage = "done",
                                                           !.toast = "Failed to save photo"]]
  /\ UNCHANGED <<photos, bucket, nextId, clock>>
  /\ CapFrame

\* updatePhotoDetails(id, "Target <id>") answers: the success toast
CaptureRenamed ==
  /\ \E t \in Pending("rename"), out \in Outcomes :
       LET s == cap.saves[t]
           d == updatePhotoDetails(s.rowId, "Target " \o ToString(s.rowId), NULL,
                                   s.user, out, photos)
       IN /\ photos' = d.photos
          /\ cap' = [cap EXCEPT !.toast = "Photo saved successfully!",
                                !.saves[t] = [s EXCEPT !.stage = "done",
                                                       !.toast = "Photo saved successfully!"]]
  /\ UNCHANGED <<bucket, nextId, clock>>
  /\ CapFrame

InitCapture ==
  /\ photos = NoPhotos
  /\ bucket = {}
  /\ nextId = 1
  /\ clock = 1
  /\ svc = SvcIdle
  /\ auth = AuthIdle
  /\ ctx = CtxIdle
  /\ modal = ModalIdle
  /\ cap = CapIdle
  /\ lv = LvIdle
  /\ thumb = ThumbIdle
  /\ mig = MigIdle
  /\ progressFile = NoFile
  /\ app = AppIdle

NextCapture ==
  \/ CaptureFile
  \/ SaveUploadAnswer
  \/ CompressImageSettles
  \/ CreateThumbnailSettles
  \/ SaveInsertAnswer
  \/ CaptureResume
  \/ CaptureRenamed

\* every request is answered, every image load ends with its load or its
\* error event, and the event loop runs every continuation that is ready
CaptureFairness ==
  /\ WF_vars(SaveUploadAnswer)
  /\ WF_vars(CompressImageSettles)
  /\ WF_vars(CreateThumbnailSettles)
  /\ WF_vars(SaveInsertAnswer)
  /\ WF_vars(CaptureResume)
  /\ WF_vars(CaptureRenamed)

SpecCapture == InitCapture /\ [][NextCapture]_vars /\ CaptureFairness

\* C22: every capture that has added a loading marker is followed by the
\* removal of the marker with its temporary id and by a toast of that capture
C22_CaptureCompletes ==
  \A t \in TempIds :
    (t \in cap.loadingPhotos) ~>
      (t \notin cap.loadingPhotos /\ t \in DOMAIN cap.saves /\ cap.saves[t].toast # NULL)

\* the original was uploaded, the image did not load in compressImage: the
\* save waits for a promise nothing settles and the marker stays
C22_MarkerLeftBehind ==
  \E t \in DOMAIN cap.saves :
    /\ t \in cap.loadingPhotos
    /\ cap.saves[t].stage = "compress"
    /\ cap.saves[t].stalled
    /\ cap.saves[t].path \in bucket
    /\ Pending("upload") \cup Pending("thumbnail") \cup Pending("insert")
         \cup Pending("return") \cup Pending("rename") = {}
    /\ Cardinality(DOMAIN cap.saves) = MaxCaptures

====
